---- MODULE Spec2Model ----
(***************************************************************************)
(* A model of the plex_sync reconciler: the watched-state pipeline of      *)
(* src/src/watched.py (fetch, prune, merge, mark-already-synced, diff and  *)
(* push), the Plex driver calls of src/src/plex.py that it makes, and the  *)
(* media servers those calls act on.                                       *)
(***************************************************************************)
EXTENDS Integers, Sequences, FiniteSets, TLC

(***************************************************************************)
(* Bounds of the model.                                                    *)
(***************************************************************************)
MaxCycles == 2
MaxUserActions == 3
MaxFaults == 1

(***************************************************************************)
(* Program constants.                                                      *)
(***************************************************************************)
\* abs(...) >= 60000 / < 60000 : the progress threshold.
ProgressThreshold == 60000

(***************************************************************************)
(* Generic helpers.                                                        *)
(***************************************************************************)
Abs(x) == IF x < 0 THEN 0 - x ELSE x

Last(seq) == seq[Len(seq)]

\* The index of the first element satisfying P, or 0 when there is none.
FirstIndex(seq, P(_)) ==
    IF \E i \in 1..Len(seq) : P(seq[i])
    THEN CHOOSE i \in 1..Len(seq) : P(seq[i]) /\ \A j \in 1..(i - 1) : ~P(seq[j])
    ELSE 0

AnyInSeq(seq, P(_)) == \E i \in 1..Len(seq) : P(seq[i])

\* dict[key] = value on a dict modelled as a function.
DictSet(d, k, v) == [x \in (DOMAIN d) \cup {k} |-> IF x = k THEN v ELSE d[x]]

EmptyDict == [x \in {} |-> x]

(***************************************************************************)
(* Data model (watched.py, lines 28-70).  An absent string is "", which    *)
(* the code never tells from None: every test on an id is a truth test.    *)
(* plex_guid is held as the list of its pieces between "://" separators    *)
(* (<<>> is None); a location as the list of its path segments; an absent  *)
(* last_viewed_at is <<>> and a present one <<t>>.                         *)
(***************************************************************************)
Absent == ""

NoGuid == <<>>

NoTime == <<>>

MediaIdentifiers(title, locations, imdb_id, tvdb_id, tmdb_id, plex_guid) ==
    [title |-> title, locations |-> locations, imdb_id |-> imdb_id,
     tvdb_id |-> tvdb_id, tmdb_id |-> tmdb_id, plex_guid |-> plex_guid,
     synced_to_servers |-> EmptyDict]

WatchedStatus(completed, time, last_viewed_at) ==
    [completed |-> completed, time |-> time, last_viewed_at |-> last_viewed_at]

ServerSyncInfo(synced_at, synced_status) ==
    [synced_at |-> synced_at, synced_status |-> synced_status]

MediaItem(identifiers, status) ==
    [identifiers |-> identifiers, status |-> status, synced_to_servers |-> EmptyDict]

Series(identifiers, episodes) ==
    [identifiers |-> identifiers, episodes |-> episodes]

LibraryData(title, movies, series) ==
    [title |-> title, movies |-> movies, series |-> series]

(***************************************************************************)
(* Identifier comparison (watched.py, lines 78-125).                       *)
(***************************************************************************)
Truthy(str) == str # Absent

GuidTruthy(guid) == guid # NoGuid /\ guid # <<"">>

\* plex_guid.split("://")[-1]
GuidSuffix(guid) == Last(guid)

\* l.replace("\\", "/").split("/")[-1]
Basename(location) == Last(location)

\* A guid comparison that strips the scheme of the first guid only.
check_guid_match_OneSided(ids1, ids2) ==
    \/ (Truthy(ids1.imdb_id) /\ Truthy(ids2.imdb_id) /\ ids1.imdb_id = ids2.imdb_id)
    \/ (Truthy(ids1.tvdb_id) /\ Truthy(ids2.tvdb_id) /\ ids1.tvdb_id = ids2.tvdb_id)
    \/ (Truthy(ids1.tmdb_id) /\ Truthy(ids2.tmdb_id) /\ ids1.tmdb_id = ids2.tmdb_id)
    \/ /\ GuidTruthy(ids1.plex_guid)
       /\ GuidTruthy(ids2.plex_guid)
       /\ \/ ids1.plex_guid = ids2.plex_guid
          \/ <<GuidSuffix(ids1.plex_guid)>> = ids2.plex_guid

check_guid_match(ids1, ids2) ==
    \/ (Truthy(ids1.imdb_id) /\ Truthy(ids2.imdb_id) /\ ids1.imdb_id = ids2.imdb_id)
    \/ (Truthy(ids1.tvdb_id) /\ Truthy(ids2.tvdb_id) /\ ids1.tvdb_id = ids2.tvdb_id)
    \/ (Truthy(ids1.tmdb_id) /\ Truthy(ids2.tmdb_id) /\ ids1.tmdb_id = ids2.tmdb_id)
    \/ /\ GuidTruthy(ids1.plex_guid)
       /\ GuidTruthy(ids2.plex_guid)
       /\ \/ ids1.plex_guid = ids2.plex_guid
          \/ GuidSuffix(ids1.plex_guid) = GuidSuffix(ids2.plex_guid)

check_same_identifiers(ids1, ids2) ==
    \/ check_guid_match(ids1, ids2)
    \/ /\ ids1.locations # {}
       /\ ids2.locations # {}
       /\ {Basename(l) : l \in ids1.locations}
            \cap {Basename(l) : l \in ids2.locations} # {}

\* check_same_identifiers called on two MediaItem objects.
SameItem(item1, item2) == check_same_identifiers(item1.identifiers, item2.identifiers)

(***************************************************************************)
(* Sync logic helpers (watched.py, lines 170-294).                         *)
(***************************************************************************)
\* `status.last_viewed_at or 0`
OrZero(last_viewed_at) == IF last_viewed_at = NoTime THEN 0 ELSE last_viewed_at[1]

\* The loops of lines 179-191: some ledger entry of the item records a
\* completed flag other than the item's own.
has_recent_change(item) ==
    \E server_id \in DOMAIN item.synced_to_servers :
        item.synced_to_servers[server_id].synced_status.completed # item.status.completed

\* A conflict resolution without the recent-change rule of lines 193-198.
SourceWins_NoRecentChange(target_item, source_item) ==
    LET ts_target == OrZero(target_item.status.last_viewed_at)
        ts_source == OrZero(source_item.status.last_viewed_at)
    IN  IF ts_source > ts_target THEN TRUE
        ELSE IF ~target_item.status.completed /\ source_item.status.completed THEN TRUE
        ELSE IF /\ ~target_item.status.completed
                /\ ~source_item.status.completed
                /\ source_item.status.time > target_item.status.time THEN TRUE
        ELSE FALSE

\* Lines 193-216: whether target_list[i] = source_item is executed.
SourceWins(target_item, source_item) ==
    LET ts_target == OrZero(target_item.status.last_viewed_at)
        ts_source == OrZero(source_item.status.last_viewed_at)
        source_has_recent_change == has_recent_change(source_item)
        target_has_recent_change == has_recent_change(target_item)
    IN  IF source_has_recent_change /\ ~target_has_recent_change THEN TRUE
        ELSE IF target_has_recent_change /\ ~source_has_recent_change THEN FALSE
        ELSE IF ts_source > ts_target THEN TRUE
        ELSE IF ~target_item.status.completed /\ source_item.status.completed THEN TRUE
        ELSE IF /\ ~target_item.status.completed
                /\ ~source_item.status.completed
                /\ source_item.status.time > target_item.status.time THEN TRUE
        ELSE FALSE

\* A merge in which the winning source takes over the ledger of the item it
\* replaces.
merge_media_item_to_list_KeepingLedger(target_list, source_item) ==
    LET i == FirstIndex(target_list, LAMBDA t : SameItem(t, source_item))
    IN  IF i = 0 THEN Append(target_list, source_item)
        ELSE IF SourceWins(target_list[i], source_item)
             THEN [target_list EXCEPT
                      ![i] = [source_item EXCEPT
                                 !.synced_to_servers = target_list[i].synced_to_servers]]
             ELSE target_list

\* The list after merge_media_item_to_list(target_list, source_item).
merge_media_item_to_list(target_list, source_item) ==
    LET i == FirstIndex(target_list, LAMBDA t : SameItem(t, source_item))
    IN  IF i = 0 THEN Append(target_list, source_item)
        ELSE IF SourceWins(target_list[i], source_item)
             THEN [target_list EXCEPT ![i] = source_item]
             ELSE target_list

\* A create_diff_library that ignores the ledger: every global item is added.
should_add_IgnoringLedger(g_item, server_id) == TRUE

\* A create_diff_library that adds an item only for a change of completion.
should_add_CompletionOnly(g_item, server_id) ==
    IF server_id \notin DOMAIN g_item.synced_to_servers THEN TRUE
    ELSE g_item.status.completed
            # g_item.synced_to_servers[server_id].synced_status.completed

\* should_add of create_diff_library, for a movie or an episode.
should_add(g_item, server_id) ==
    IF server_id \notin DOMAIN g_item.synced_to_servers THEN TRUE
    ELSE LET synced_status == g_item.synced_to_servers[server_id].synced_status
             current_status == g_item.status
         IN  IF current_status.completed # synced_status.completed THEN TRUE
             ELSE /\ ~current_status.completed
                  /\ Abs(current_status.time - synced_status.time) >= ProgressThreshold

\* create_diff_library: <<>> for None, <<diff_lib>> otherwise.
create_diff_library(global_lib, server_id) ==
    LET diff_movies == SelectSeq(global_lib.movies, LAMBDA g : should_add(g, server_id))
        per_series == [i \in 1..Len(global_lib.series) |->
                          Series(global_lib.series[i].identifiers,
                                 SelectSeq(global_lib.series[i].episodes,
                                           LAMBDA g : should_add(g, server_id)))]
        diff_series == SelectSeq(per_series, LAMBDA ser : ser.episodes # <<>>)
    IN  IF diff_movies # <<>> \/ diff_series # <<>>
        THEN <<LibraryData(global_lib.title, diff_movies, diff_series)>>
        ELSE <<>>

(***************************************************************************)
(* The configuration and the media servers.                                *)
(*                                                                         *)
(* servers is the list main() passes to synchronize_watched; a server's    *)
(* machineIdentifier is its name here.  user_mapping and library_mapping   *)
(* are unset (None), the black and white lists empty, GENERATE_GUIDS and   *)
(* GENERATE_LOCATIONS at their default True.                               *)
(*                                                                         *)
(* world[s][u][l][m] is what server s holds for user u about medium m of   *)
(* library l: plexapi's isWatched, viewOffset and lastViewedAt.            *)
(***************************************************************************)
VARIABLES world, now

servers == <<"A", "B">>

ServerIds == {servers[i] : i \in 1..Len(servers)}

Movies == {"M1"}

Episodes == {"E1", "E2"}

\* The order in which a server lists the media of a library.
MediaOrder == <<"M1", "E1", "E2">>

\* The show an episode belongs to.
ShowOf(m) == "S1"

LibraryType(l) == IF l = "Movies" THEN "movie" ELSE "show"

\* item.guid as the server reports it.
NativeGuid(server, m) == <<"plex", m>>

\* item.locations as the server reports it: one path per item.
NativeLocations(server, m) ==
    CASE m = "M1" -> <<<<"data", server, "M1.mkv">>>>
      [] m = "E1" -> <<<<"tv", "S1", "S1E1.mkv">>>>
      [] m = "E2" -> <<<<"tv", "S1", "S1E2.mkv">>>>
      [] OTHER -> <<<<"tv", m>>>>

\* extract_guids_from_item: the ids each server's metadata agent knows.
extract_guids_from_item(server, m) ==
    [imdb |-> IF m = "M1" /\ server = "A" THEN "tt1" ELSE Absent,
     tvdb |-> IF m = "E1" THEN "101" ELSE Absent,
     tmdb |-> IF m = "M1" /\ server # "A" THEN "11" ELSE Absent,
     plex |-> NativeGuid(server, m)]

\* extract_identifiers_from_item: locations keep location.split("/")[-1].
extract_identifiers_from_item(server, m) ==
    LET guids == extract_guids_from_item(server, m)
        locs == NativeLocations(server, m)
    IN  MediaIdentifiers(m, {<<Basename(locs[i])>> : i \in 1..Len(locs)},
                         guids.imdb, guids.tvdb, guids.tmdb, guids.plex)

Unwatched == [isWatched |-> FALSE, viewOffset |-> 0, lastViewedAt |-> NoTime]

\* library_videos.search(unwatched=False) + library_videos.search(inProgress=True)
\* followed by the test of line 568, over the media in Among.
WatchedThenInProgress(lib_world, Among) ==
    LET present == SelectSeq(MediaOrder, LAMBDA m : m \in Among /\ m \in DOMAIN lib_world)
        watched == SelectSeq(present, LAMBDA m : lib_world[m].isWatched)
        in_progress == SelectSeq(present, LAMBDA m : lib_world[m].viewOffset > 0)
    IN  SelectSeq(watched \o in_progress,
                  LAMBDA m : lib_world[m].isWatched
                             \/ lib_world[m].viewOffset >= ProgressThreshold)

\* get_mediaitem: the identifiers are reused when they carry a plex_guid.
get_mediaitem(server, m, video, existing_identifiers) ==
    MediaItem(IF existing_identifiers # <<>> /\ GuidTruthy(existing_identifiers[1].plex_guid)
              THEN existing_identifiers[1]
              ELSE extract_identifiers_from_item(server, m),
              WatchedStatus(video.isWatched, video.viewOffset, video.lastViewedAt))

\* The keys a plex_guid is filed under in series_guid_map / ep_guid_map: the
\* literal and, when it has a scheme, the part after the last "://".
GuidKeys(guid) ==
    IF ~GuidTruthy(guid) THEN {}
    ELSE IF Len(guid) > 1 THEN {guid, <<Last(guid)>>} ELSE {guid}

\* A dict filled by a loop over seq keeps, for a key, the last element filed
\* under it: <<element>> or <<>>.
DictLookup(seq, KeysOf(_), key) ==
    LET hits == {i \in 1..Len(seq) : key \in KeysOf(seq[i])}
    IN  IF hits = {} THEN <<>>
        ELSE <<seq[CHOOSE i \in hits : \A j \in hits : j <= i]>>

\* The first key of keys (a list) found in the dict: <<element>> or <<>>.
FirstLookup(seq, KeysOf(_), keys) ==
    LET i == FirstIndex(keys, LAMBDA k : DictLookup(seq, KeysOf, k) # <<>>)
    IN  IF i = 0 THEN <<>> ELSE DictLookup(seq, KeysOf, keys[i])

\* Lines 561-600: the identifiers of the previous state reused for a movie.
ExistingMovieIdentifiers(server, m, existing_movies) ==
    LET v_guid == NativeGuid(server, m)
        locs == NativeLocations(server, m)
        v_filenames == [i \in 1..Len(locs) |-> <<Basename(locs[i])>>]
        by_file == FirstLookup(existing_movies, LAMBDA e : e.identifiers.locations,
                               v_filenames)
        by_guid == FirstIndex(existing_movies,
                       LAMBDA e : \/ e.identifiers.plex_guid = v_guid
                                  \/ /\ GuidTruthy(e.identifiers.plex_guid)
                                     /\ GuidSuffix(e.identifiers.plex_guid) = GuidSuffix(v_guid))
    IN  IF by_file # <<>> THEN <<by_file[1].identifiers>>
        ELSE IF GuidTruthy(v_guid) /\ by_guid # 0
             THEN <<existing_movies[by_guid].identifiers>>
             ELSE <<>>

\* Lines 641-660: the series of the previous state a show is recognised as.
ExistingSeries(server, show, existing_series) ==
    LET s_guid == NativeGuid(server, show)
        locs == NativeLocations(server, show)
        by_guid == DictLookup(existing_series,
                              LAMBDA e : GuidKeys(e.identifiers.plex_guid), s_guid)
        by_clean == DictLookup(existing_series,
                               LAMBDA e : GuidKeys(e.identifiers.plex_guid),
                               <<GuidSuffix(s_guid)>>)
        by_loc == FirstLookup(existing_series, LAMBDA e : e.identifiers.locations, locs)
    IN  IF by_guid # <<>> THEN by_guid
        ELSE IF GuidTruthy(s_guid) /\ by_clean # <<>> THEN by_clean
        ELSE by_loc

\* Lines 672-708: the identifiers of the previous state reused for an episode.
ExistingEpisodeIdentifiers(server, m, existing_episodes) ==
    LET v_eg == NativeGuid(server, m)
        locs == NativeLocations(server, m)
        v_ef == [i \in 1..Len(locs) |-> <<Basename(locs[i])>>]
        by_file == FirstLookup(existing_episodes, LAMBDA e : e.identifiers.locations, v_ef)
        by_guid == DictLookup(existing_episodes,
                              LAMBDA e : GuidKeys(e.identifiers.plex_guid), v_eg)
        by_clean == DictLookup(existing_episodes,
                               LAMBDA e : GuidKeys(e.identifiers.plex_guid),
                               <<GuidSuffix(v_eg)>>)
    IN  IF by_file # <<>> THEN <<by_file[1].identifiers>>
        ELSE IF by_guid # <<>> THEN <<by_guid[1].identifiers>>
        ELSE IF GuidTruthy(v_eg) /\ by_clean # <<>> THEN <<by_clean[1].identifiers>>
        ELSE <<>>

\* get_user_library_watched: the LibraryData of one user's library.
get_user_library_watched(server, title, lib_world, existing_library_data) ==
    LET existing_movies ==
            IF existing_library_data = <<>> THEN <<>> ELSE existing_library_data[1].movies
        existing_shows ==
            IF existing_library_data = <<>> THEN <<>> ELSE existing_library_data[1].series
        movie_list == WatchedThenInProgress(lib_world, Movies)
        movies == [i \in 1..Len(movie_list) |->
                      get_mediaitem(server, movie_list[i], lib_world[movie_list[i]],
                          ExistingMovieIdentifiers(server, movie_list[i], existing_movies))]
        \* show.watched() + show.episodes(viewOffset__gte=60_000)
        present == SelectSeq(MediaOrder, LAMBDA m : m \in Episodes /\ m \in DOMAIN lib_world)
        episode_list ==
            SelectSeq(present, LAMBDA m : lib_world[m].isWatched)
              \o SelectSeq(present, LAMBDA m : lib_world[m].viewOffset >= ProgressThreshold)
        show == "S1"
        existing == ExistingSeries(server, show, existing_shows)
        show_identifiers ==
            IF existing # <<>> THEN existing[1].identifiers
            ELSE extract_identifiers_from_item(server, show)
        existing_episodes == IF existing # <<>> THEN existing[1].episodes ELSE <<>>
        episode_mediaitem ==
            [i \in 1..Len(episode_list) |->
                get_mediaitem(server, episode_list[i], lib_world[episode_list[i]],
                    ExistingEpisodeIdentifiers(server, episode_list[i], existing_episodes))]
    IN  IF LibraryType(title) = "movie"
        THEN LibraryData(title, movies, <<>>)
        ELSE LibraryData(title, <<>>,
                         IF episode_mediaitem # <<>>
                         THEN <<Series(show_identifiers, episode_mediaitem)>>
                         ELSE <<>>)

\* Plex.get_watched: users_watched, user -> library title -> LibraryData.
\* A user gets an entry when the first of the user's libraries is stored.
get_watched(server, existing_state) ==
    [u \in {user \in DOMAIN world[server] : DOMAIN world[server][user] # {}} |->
        [l \in DOMAIN world[server][u] |->
            get_user_library_watched(server, l, world[server][u][l],
                IF u \in DOMAIN existing_state /\ l \in DOMAIN existing_state[u]
                THEN <<existing_state[u][l]>> ELSE <<>>)]]

(***************************************************************************)
(* synchronize_watched, stage 2: prune (watched.py, lines 374-498).        *)
(* A watched state is user -> library name -> LibraryData; the snapshots   *)
(* server_watched_data are server id -> user -> library title ->           *)
(* LibraryData.  A tombstone keeps what the merge reads of the object      *)
(* appended to tombstones: its class and its identifiers.                  *)
(***************************************************************************)
\* str.lower() on the names of the model.
Lower(name) ==
    CASE name = "Movies" -> "movies"
      [] name = "TV" -> "tv"
      [] OTHER -> name

Tombstone(kind, identifiers) == [kind |-> kind, identifiers |-> identifiers]

\* A prune that reads a server without a snapshot as a server holding the
\* library empty.
SnapshotLibrary_AbsentIsEmpty(server_watched_data, s_id, g_user, g_lib_name) ==
    IF s_id \notin DOMAIN server_watched_data
    THEN <<LibraryData(g_lib_name, <<>>, <<>>)>>
    ELSE LET s_data == server_watched_data[s_id]
             users == {s_u_key \in DOMAIN s_data : Lower(s_u_key) = Lower(g_user)}
         IN  IF users = {} THEN <<>>
             ELSE LET s_u_data == s_data[CHOOSE s_u_key \in users : TRUE]
                      libs == {s_l_key \in DOMAIN s_u_data :
                                  Lower(s_l_key) = Lower(g_lib_name)}
                  IN  IF libs = {} THEN <<>>
                      ELSE <<s_u_data[CHOOSE s_l_key \in libs : TRUE]>>

\* Lines 391-420 and 440-463: the library a server's snapshot holds for a
\* global user and library, <<s_lib_data>>, or <<>> when the server has no
\* snapshot, not the user or not the library.
SnapshotLibrary(server_watched_data, s_id, g_user, g_lib_name) ==
    IF s_id \notin DOMAIN server_watched_data THEN <<>>
    ELSE LET s_data == server_watched_data[s_id]
             users == {s_u_key \in DOMAIN s_data : Lower(s_u_key) = Lower(g_user)}
         IN  IF users = {} THEN <<>>
             ELSE LET s_u_data == s_data[CHOOSE s_u_key \in users : TRUE]
                      libs == {s_l_key \in DOMAIN s_u_data :
                                  Lower(s_l_key) = Lower(g_lib_name)}
                  IN  IF libs = {} THEN <<>>
                      ELSE <<s_u_data[CHOOSE s_l_key \in libs : TRUE]>>

\* A prune that asks every connected server holding the library to miss the
\* movie.
MovieMissing_OnEveryServer(server_watched_data, g_user, g_lib_name, g_mov) ==
    /\ \E i \in 1..Len(servers) :
          SnapshotLibrary(server_watched_data, servers[i], g_user, g_lib_name) # <<>>
    /\ \A i \in 1..Len(servers) :
          LET s_lib == SnapshotLibrary(server_watched_data, servers[i], g_user, g_lib_name)
          IN  s_lib # <<>> =>
                 ~AnyInSeq(s_lib[1].movies, LAMBDA s_mov : SameItem(g_mov, s_mov))

\* Lines 389-431: the movie is missing on some connected server.
MovieMissing(server_watched_data, g_user, g_lib_name, g_mov) ==
    \E i \in 1..Len(servers) :
        LET s_lib == SnapshotLibrary(server_watched_data, servers[i], g_user, g_lib_name)
        IN  /\ s_lib # <<>>
            /\ ~AnyInSeq(s_lib[1].movies, LAMBDA s_mov : SameItem(g_mov, s_mov))

\* Lines 440-494 for one global series, from server number i on: the
\* episodes left, whether the series goes to series_to_remove, and the
\* episodes tombstoned on the way.
RECURSIVE PruneSeries(_, _, _, _, _, _)
PruneSeries(server_watched_data, g_user, g_lib_name, g_ser, i, ep_tombstones) ==
    IF i > Len(servers)
    THEN [series |-> g_ser, remove |-> FALSE, tombstones |-> ep_tombstones]
    ELSE LET s_lib == SnapshotLibrary(server_watched_data, servers[i], g_user, g_lib_name)
         IN  IF s_lib = <<>>
             THEN PruneSeries(server_watched_data, g_user, g_lib_name, g_ser, i + 1,
                              ep_tombstones)
             ELSE LET k == FirstIndex(s_lib[1].series,
                               LAMBDA s_s : check_same_identifiers(g_ser.identifiers,
                                                                   s_s.identifiers))
                  IN  IF k = 0
                      THEN [series |-> g_ser, remove |-> TRUE, tombstones |-> ep_tombstones]
                      ELSE LET s_ser_match == s_lib[1].series[k]
                               Found(g_ep) == AnyInSeq(s_ser_match.episodes,
                                                       LAMBDA s_ep : SameItem(g_ep, s_ep))
                               left == SelectSeq(g_ser.episodes, Found)
                               gone == SelectSeq(g_ser.episodes, LAMBDA g_ep : ~Found(g_ep))
                               tombs == ep_tombstones \cup
                                   {Tombstone("MediaItem", gone[j].identifiers) :
                                       j \in 1..Len(gone)}
                               pruned == [g_ser EXCEPT !.episodes = left]
                           IN  IF left = <<>>
                               THEN [series |-> pruned, remove |-> TRUE,
                                     tombstones |-> tombs]
                               ELSE PruneSeries(server_watched_data, g_user, g_lib_name,
                                                pruned, i + 1, tombs)

\* Lines 385-498 for one library: the pruned library and its tombstones.
PruneLibrary(server_watched_data, g_user, g_lib_name, g_lib_data) ==
    LET Missing(g_mov) == MovieMissing(server_watched_data, g_user, g_lib_name, g_mov)
        movies_to_remove == SelectSeq(g_lib_data.movies, Missing)
        results == [i \in 1..Len(g_lib_data.series) |->
                       PruneSeries(server_watched_data, g_user, g_lib_name,
                                   g_lib_data.series[i], 1, {})]
        kept == SelectSeq(results, LAMBDA r : ~r.remove)
    IN  [library |->
            [g_lib_data EXCEPT
                !.movies = SelectSeq(g_lib_data.movies, LAMBDA g_mov : ~Missing(g_mov)),
                !.series = [i \in 1..Len(kept) |-> kept[i].series]],
         tombstones |->
            {Tombstone("MediaItem", movies_to_remove[i].identifiers) :
                i \in 1..Len(movies_to_remove)}
            \cup UNION {results[i].tombstones : i \in 1..Len(results)}
            \cup {Tombstone("Series", results[i].series.identifiers) :
                    i \in {j \in 1..Len(results) : results[j].remove}}]

\* The whole prune stage.
Prune(g_state, server_watched_data) ==
    LET pruned == [g_user \in DOMAIN g_state |->
                      [g_lib_name \in DOMAIN g_state[g_user] |->
                          PruneLibrary(server_watched_data, g_user, g_lib_name,
                                       g_state[g_user][g_lib_name])]]
    IN  [state |-> [g_user \in DOMAIN g_state |->
                       [g_lib_name \in DOMAIN g_state[g_user] |->
                           pruned[g_user][g_lib_name].library]],
         tombstones |-> UNION {UNION {pruned[g_user][g_lib_name].tombstones :
                                         g_lib_name \in DOMAIN g_state[g_user]} :
                                  g_user \in DOMAIN g_state}]

(***************************************************************************)
(* synchronize_watched, stage 3: merge (watched.py, lines 505-545).        *)
(***************************************************************************)
\* A merge that does not look at the tombstones of movies and episodes.
ItemTombstoned_Ignored(item, tombstones) == FALSE

\* any(check_same_identifiers(mov, t) for t in tombstones if isinstance(t, MediaItem))
ItemTombstoned(item, tombstones) ==
    \E t \in tombstones :
        t.kind = "MediaItem" /\ check_same_identifiers(item.identifiers, t.identifiers)

\* A merge that does not look at the tombstones of series.
SeriesTombstoned_Ignored(ser, tombstones) == FALSE

\* is_series_tombstoned of line 534.
SeriesTombstoned(ser, tombstones) ==
    \E t \in tombstones :
        t.kind = "Series" /\ check_same_identifiers(ser.identifiers, t.identifiers)

\* Lines 516-520 (movies) and 542-545 (episodes), from item number i on.
RECURSIVE MergeItems(_, _, _, _)
MergeItems(g_items, items, i, tombstones) ==
    IF i > Len(items) THEN g_items
    ELSE IF ItemTombstoned(items[i], tombstones)
         THEN MergeItems(g_items, items, i + 1, tombstones)
         ELSE MergeItems(merge_media_item_to_list(g_items, items[i]), items, i + 1,
                         tombstones)

\* Lines 522-545, from series number i on.
RECURSIVE MergeSeries(_, _, _, _)
MergeSeries(g_series, series, i, tombstones) ==
    IF i > Len(series) THEN g_series
    ELSE LET ser == series[i]
             k == FirstIndex(g_series,
                      LAMBDA g : check_same_identifiers(g.identifiers, ser.identifiers))
             base == IF k = 0 THEN Append(g_series, Series(ser.identifiers, <<>>))
                     ELSE g_series
             at == IF k = 0 THEN Len(base) ELSE k
         IN  IF SeriesTombstoned(ser, tombstones)
             THEN MergeSeries(g_series, series, i + 1, tombstones)
             ELSE MergeSeries(
                      [base EXCEPT ![at].episodes =
                          MergeItems(@, ser.episodes, 1, tombstones)],
                      series, i + 1, tombstones)

MergeLibrary(g_lib_data, l_data, tombstones) ==
    [g_lib_data EXCEPT
        !.movies = MergeItems(@, l_data.movies, 1, tombstones),
        !.series = MergeSeries(@, l_data.series, 1, tombstones)]

\* Lines 506-545 for the snapshot of one server.
MergeServer(g_state, data, tombstones) ==
    [g_user \in (DOMAIN g_state) \cup (DOMAIN data) |->
        LET g_u_data == IF g_user \in DOMAIN g_state THEN g_state[g_user] ELSE EmptyDict
            u_data == IF g_user \in DOMAIN data THEN data[g_user] ELSE EmptyDict
        IN  [g_lib_name \in (DOMAIN g_u_data) \cup (DOMAIN u_data) |->
                LET g_lib_data == IF g_lib_name \in DOMAIN g_u_data
                                  THEN g_u_data[g_lib_name]
                                  ELSE LibraryData(g_lib_name, <<>>, <<>>)
                IN  IF g_lib_name \in DOMAIN u_data
                    THEN MergeLibrary(g_lib_data, u_data[g_lib_name], tombstones)
                    ELSE g_lib_data]]

\* The whole merge stage: the snapshots are folded in the order they were
\* inserted into server_watched_data.
RECURSIVE Merge(_, _, _, _, _)
Merge(g_state, server_watched_data, order, i, tombstones) ==
    IF i > Len(order) THEN g_state
    ELSE Merge(MergeServer(g_state, server_watched_data[order[i]], tombstones),
               server_watched_data, order, i + 1, tombstones)

(***************************************************************************)
(* Stage 3.5: mark already-synced items (watched.py, lines 554-611).       *)
(***************************************************************************)
\* A mark stage that only takes equal progress for identical.
IdenticalStatus_EqualProgress(s_status, g_status) ==
    /\ s_status.completed = g_status.completed
    /\ s_status.time = g_status.time

\* The test of lines 586-587 and 603-604.
IdenticalStatus(s_status, g_status) ==
    /\ s_status.completed = g_status.completed
    /\ \/ s_status.completed
       \/ Abs(s_status.time - g_status.time) < ProgressThreshold

\* A ledger that records "completed" whatever the status of the item, as the
\* playlist ledger does.
Stamp_AsCompleted(g_item, s_id, current_ts) ==
    [g_item EXCEPT !.synced_to_servers =
        DictSet(@, s_id, ServerSyncInfo(current_ts, WatchedStatus(TRUE, 0, NoTime)))]

\* g_item.synced_to_servers[s_id] = ServerSyncInfo(current_ts, deepcopy(g_item.status))
Stamp(g_item, s_id, current_ts) ==
    [g_item EXCEPT !.synced_to_servers =
        DictSet(@, s_id, ServerSyncInfo(current_ts, g_item.status))]

\* A mark stage that stamps every matched item, whatever the two statuses.
MarkItems_EveryMatch(g_items, s_items, s_id, current_ts) ==
    [i \in 1..Len(g_items) |->
        IF \E j \in 1..Len(s_items) :
              FirstIndex(g_items, LAMBDA g : SameItem(s_items[j], g)) = i
        THEN Stamp(g_items[i], s_id, current_ts)
        ELSE g_items[i]]

\* Lines 582-593 and 599-610: each server item looks for its first global
\* match and stamps it when the statuses are identical.
MarkItems(g_items, s_items, s_id, current_ts) ==
    [i \in 1..Len(g_items) |->
        IF \E j \in 1..Len(s_items) :
              /\ FirstIndex(g_items, LAMBDA g : SameItem(s_items[j], g)) = i
              /\ IdenticalStatus(s_items[j].status, g_items[i].status)
        THEN Stamp(g_items[i], s_id, current_ts)
        ELSE g_items[i]]

RECURSIVE MarkSeries(_, _, _, _, _)
MarkSeries(g_series, s_series, j, s_id, current_ts) ==
    IF j > Len(s_series) THEN g_series
    ELSE LET k == FirstIndex(g_series,
                      LAMBDA g : check_same_identifiers(s_series[j].identifiers,
                                                        g.identifiers))
         IN  IF k = 0 THEN MarkSeries(g_series, s_series, j + 1, s_id, current_ts)
             ELSE MarkSeries(
                      [g_series EXCEPT ![k].episodes =
                          MarkItems(@, s_series[j].episodes, s_id, current_ts)],
                      s_series, j + 1, s_id, current_ts)

\* Lines 563-611 for one server.
MarkServer(g_state, server_data, s_id, current_ts) ==
    [g_user \in DOMAIN g_state |->
        [g_lib_name \in DOMAIN g_state[g_user] |->
            IF g_user \in DOMAIN server_data /\ g_lib_name \in DOMAIN server_data[g_user]
            THEN LET s_lib_data == server_data[g_user][g_lib_name]
                 IN  [g_state[g_user][g_lib_name] EXCEPT
                         !.movies = MarkItems(@, s_lib_data.movies, s_id, current_ts),
                         !.series = MarkSeries(@, s_lib_data.series, 1, s_id, current_ts)]
            ELSE g_state[g_user][g_lib_name]]]

\* The whole stage, over the servers in configuration order.
RECURSIVE MarkAlreadySynced(_, _, _, _)
MarkAlreadySynced(g_state, server_watched_data, i, current_ts) ==
    IF i > Len(servers) THEN g_state
    ELSE IF servers[i] \notin DOMAIN server_watched_data
         THEN MarkAlreadySynced(g_state, server_watched_data, i + 1, current_ts)
         ELSE MarkAlreadySynced(
                  MarkServer(g_state, server_watched_data[servers[i]], servers[i],
                             current_ts),
                  server_watched_data, i + 1, current_ts)

(***************************************************************************)
(* Stage 4: process_server_sync (watched.py, lines 620-753).               *)
(***************************************************************************)
\* A process_server_sync that never finds anything to unmark.
UnmarkLibrary_Nothing(g_lib_data, s_lib_data, tg_s_lib) == <<>>

\* A process_server_sync that unmarks a reported series whole as soon as one
\* of its episodes is missing from the global state.
UnmarkLibrary_WholeSeries(g_lib_data, s_lib_data, tg_s_lib) ==
    LET movies == SelectSeq(s_lib_data.movies,
                      LAMBDA s_mov : ~AnyInSeq(g_lib_data.movies,
                                               LAMBDA g_mov : SameItem(g_mov, s_mov)))
        Wanted(s_ser) ==
            LET k == FirstIndex(g_lib_data.series,
                         LAMBDA g : check_same_identifiers(g.identifiers,
                                                           s_ser.identifiers))
            IN  IF k = 0 THEN TRUE
                ELSE AnyInSeq(s_ser.episodes,
                         LAMBDA s_ep : ~AnyInSeq(g_lib_data.series[k].episodes,
                                                 LAMBDA g_ep : SameItem(g_ep, s_ep)))
        series == SelectSeq(s_lib_data.series, Wanted)
    IN  IF movies # <<>> \/ series # <<>>
        THEN <<LibraryData(tg_s_lib, movies, series)>>
        ELSE <<>>

\* Lines 677-704: the unmark library, <<unmark_lib>>, or <<>> when
\* needs_unmark stays False.
UnmarkLibrary(g_lib_data, s_lib_data, tg_s_lib) ==
    LET movies == SelectSeq(s_lib_data.movies,
                      LAMBDA s_mov : ~AnyInSeq(g_lib_data.movies,
                                               LAMBDA g_mov : SameItem(g_mov, s_mov)))
        UnmarkOf(s_ser) ==
            LET k == FirstIndex(g_lib_data.series,
                         LAMBDA g : check_same_identifiers(g.identifiers,
                                                           s_ser.identifiers))
            IN  IF k = 0 THEN s_ser
                ELSE Series(s_ser.identifiers,
                            SelectSeq(s_ser.episodes,
                                LAMBDA s_ep : ~AnyInSeq(g_lib_data.series[k].episodes,
                                                  LAMBDA g_ep : SameItem(g_ep, s_ep))))
        Wanted(s_ser) ==
            \/ ~AnyInSeq(g_lib_data.series,
                         LAMBDA g : check_same_identifiers(g.identifiers,
                                                           s_ser.identifiers))
            \/ UnmarkOf(s_ser).episodes # <<>>
        chosen == SelectSeq(s_lib_data.series, Wanted)
        series == [i \in 1..Len(chosen) |-> UnmarkOf(chosen[i])]
    IN  IF movies # <<>> \/ series # <<>>
        THEN <<LibraryData(tg_s_lib, movies, series)>>
        ELSE <<>>

\* Lines 627-669: the users and libraries process_server_sync visits.
SyncUsers(g_state, current_data) ==
    {g_user \in (DOMAIN g_state) \cap (DOMAIN current_data) :
        DOMAIN current_data[g_user] # {}}

SyncLibraries(g_state, current_data, g_user) ==
    (DOMAIN g_state[g_user]) \cap (DOMAIN current_data[g_user])

\* Lines 622-711: update_payload, target user -> library -> LibraryData.
UpdatePayload(g_state, server_watched_data, s_id) ==
    LET current_data == IF s_id \in DOMAIN server_watched_data
                        THEN server_watched_data[s_id] ELSE EmptyDict
        DiffLibs(g_user) ==
            {l \in SyncLibraries(g_state, current_data, g_user) :
                create_diff_library(g_state[g_user][l], s_id) # <<>>}
    IN  [g_user \in {u \in SyncUsers(g_state, current_data) : DiffLibs(u) # {}} |->
            [l \in DiffLibs(g_user) |-> create_diff_library(g_state[g_user][l], s_id)[1]]]

\* Lines 622-711: remove_payload.
RemovePayload(g_state, server_watched_data, s_id) ==
    LET current_data == IF s_id \in DOMAIN server_watched_data
                        THEN server_watched_data[s_id] ELSE EmptyDict
        Unmark(g_user, l) ==
            UnmarkLibrary(g_state[g_user][l], current_data[g_user][l], l)
        UnmarkLibs(g_user) ==
            {l \in SyncLibraries(g_state, current_data, g_user) : Unmark(g_user, l) # <<>>}
    IN  [g_user \in {u \in SyncUsers(g_state, current_data) : UnmarkLibs(u) # {}} |->
            [l \in UnmarkLibs(g_user) |-> Unmark(g_user, l)[1]]]

\* Lines 732-739 and 745-752: every item of the payload stamps its first
\* global match.
StampItems(glob_items, diff_items, s_id, current_ts) ==
    [i \in 1..Len(glob_items) |->
        IF \E j \in 1..Len(diff_items) :
              FirstIndex(glob_items, LAMBDA g : SameItem(diff_items[j], g)) = i
        THEN Stamp(glob_items[i], s_id, current_ts)
        ELSE glob_items[i]]

RECURSIVE StampSeries(_, _, _, _, _)
StampSeries(glob_series, diff_series, j, s_id, current_ts) ==
    IF j > Len(diff_series) THEN glob_series
    ELSE LET k == FirstIndex(glob_series,
                      LAMBDA g : check_same_identifiers(diff_series[j].identifiers,
                                                        g.identifiers))
         IN  IF k = 0 THEN StampSeries(glob_series, diff_series, j + 1, s_id, current_ts)
             ELSE StampSeries(
                      [glob_series EXCEPT ![k].episodes =
                          StampItems(@, diff_series[j].episodes, s_id, current_ts)],
                      diff_series, j + 1, s_id, current_ts)

\* A stamping that writes the entry of every server, not only of s_id.
StampPushed_EveryServer(g_state, payload, s_id, current_ts) ==
    [g_user \in DOMAIN g_state |->
        [l \in DOMAIN g_state[g_user] |->
            IF g_user \in DOMAIN payload /\ l \in DOMAIN payload[g_user]
            THEN [g_state[g_user][l] EXCEPT
                     !.movies = StampItems(
                                    StampItems(@, payload[g_user][l].movies, servers[1],
                                               current_ts),
                                    payload[g_user][l].movies, servers[2], current_ts),
                     !.series = StampSeries(
                                    StampSeries(@, payload[g_user][l].series, 1,
                                                servers[1], current_ts),
                                    payload[g_user][l].series, 1, servers[2], current_ts)]
            ELSE g_state[g_user][l]]]

\* Lines 717-753: the ledger after a push that returned.
StampPushed(g_state, payload, s_id, current_ts) ==
    [g_user \in DOMAIN g_state |->
        [l \in DOMAIN g_state[g_user] |->
            IF g_user \in DOMAIN payload /\ l \in DOMAIN payload[g_user]
            THEN [g_state[g_user][l] EXCEPT
                     !.movies = StampItems(@, payload[g_user][l].movies, s_id, current_ts),
                     !.series = StampSeries(@, payload[g_user][l].series, 1, s_id,
                                            current_ts)]
            ELSE g_state[g_user][l]]]

(***************************************************************************)
(* The driver: Plex.update_watched and update_user_watched (plex.py,       *)
(* lines 162-409 and 899-1031), with what the plexapi calls they make do   *)
(* to the server.                                                          *)
(***************************************************************************)
\* plex_movie.markWatched()
markWatched(video, ts) ==
    [isWatched |-> TRUE, viewOffset |-> 0, lastViewedAt |-> <<ts>>]

\* plex_movie.updateTimeline(time)
updateTimeline(video, time, ts) ==
    [video EXCEPT !.viewOffset = time, !.lastViewedAt = <<ts>>]

\* plex_movie.markUnwatched()
markUnwatched(video) == Unwatched

\* Lines 205-215: the guid a stored item is searched by, <<>> when it has none.
search_guid(identifiers) ==
    IF GuidTruthy(identifiers.plex_guid) THEN identifiers.plex_guid
    ELSE IF Truthy(identifiers.imdb_id)
         THEN <<"com.plexapp.agents.imdb", identifiers.imdb_id>>
    ELSE IF Truthy(identifiers.tmdb_id)
         THEN <<"com.plexapp.agents.themoviedb", identifiers.tmdb_id>>
    ELSE IF Truthy(identifiers.tvdb_id)
         THEN <<"com.plexapp.agents.thetvdb", identifiers.tvdb_id>>
    ELSE <<>>

\* A loop body that calls the server whatever DRYRUN says.
ApplyStored_IgnoringDryrun(video, status, dryrun, ts) ==
    IF video.isWatched /\ status.completed THEN video
    ELSE IF status.completed THEN markWatched(video, ts)
    ELSE IF Abs(video.viewOffset - status.time) >= ProgressThreshold
         THEN updateTimeline(video, status.time, ts)
    ELSE video

\* Lines 230-258: what the loop body does to one search result.
ApplyStored(video, status, dryrun, ts) ==
    IF video.isWatched /\ status.completed THEN video
    ELSE IF status.completed
         THEN IF dryrun THEN video ELSE markWatched(video, ts)
    ELSE IF Abs(video.viewOffset - status.time) >= ProgressThreshold /\ ~dryrun
         THEN updateTimeline(video, status.time, ts)
    ELSE video

\* Lines 204-258 (Among = Movies) and 268-323 (Among = Episodes), from
\* stored item number i on.
RECURSIVE ApplyAdditions(_, _, _, _, _, _, _)
ApplyAdditions(lib_world, server, stored, i, Among, dryrun, ts) ==
    IF i > Len(stored) THEN lib_world
    ELSE LET guid == search_guid(stored[i].identifiers)
             \* library_section.search(guid=search_guid)
             results == {m \in (DOMAIN lib_world) \cap Among :
                            NativeGuid(server, m) = guid}
         IN  ApplyAdditions(
                 [m \in DOMAIN lib_world |->
                     IF guid # <<>> /\ m \in results
                     THEN ApplyStored(lib_world[m], stored[i].status, dryrun, ts)
                     ELSE lib_world[m]],
                 server, stored, i + 1, Among, dryrun, ts)

\* Lines 334-355 and 375-397: a watched server item is one of the items to
\* remove, by file name first and by identifiers otherwise.
MatchesRemoval(server, m, remove_items) ==
    LET locs == NativeLocations(server, m)
        p_filenames == {Basename(locs[i]) : i \in 1..Len(locs)}
        by_file == UNION {{Basename(l) : l \in remove_items[i].identifiers.locations} :
                             i \in 1..Len(remove_items)}
    IN  \/ p_filenames \cap by_file # {}
        \/ AnyInSeq(remove_items,
               LAMBDA r : check_same_identifiers(extract_identifiers_from_item(server, m),
                                                 r.identifiers))

\* Lines 329-403: the unmark half of update_user_watched.
ApplyRemovals(lib_world, server, items_to_remove, dryrun) ==
    LET show == "S1"
        \* library_section.search(unwatched=False) on a show library
        show_listed == \E m \in (DOMAIN lib_world) \cap Episodes : lib_world[m].isWatched
        k == FirstIndex(items_to_remove.series,
                 LAMBDA r : check_same_identifiers(
                                extract_identifiers_from_item(server, show), r.identifiers))
    IN  [m \in DOMAIN lib_world |->
            IF dryrun \/ ~lib_world[m].isWatched THEN lib_world[m]
            ELSE IF /\ m \in Movies
                    /\ items_to_remove.movies # <<>>
                    /\ MatchesRemoval(server, m, items_to_remove.movies)
                 THEN markUnwatched(lib_world[m])
            ELSE IF /\ m \in Episodes
                    /\ show_listed
                    /\ k # 0
                    /\ MatchesRemoval(server, m, items_to_remove.series[k].episodes)
                 THEN markUnwatched(lib_world[m])
            ELSE lib_world[m]]

\* update_user_watched for one library of one user.
update_user_watched(lib_world, server, library_data, items_to_remove, dryrun, ts) ==
    LET RECURSIVE Episodes_of(_, _)
        Episodes_of(series, i) ==
            IF i > Len(series) THEN <<>>
            ELSE series[i].episodes \o Episodes_of(series, i + 1)
        marked == ApplyAdditions(
                      ApplyAdditions(lib_world, server, library_data.movies, 1, Movies,
                                     dryrun, ts),
                      server, Episodes_of(library_data.series, 1), 1, Episodes, dryrun, ts)
    IN  IF items_to_remove = <<>> THEN marked
        ELSE ApplyRemovals(marked, server, items_to_remove[1], dryrun)

\* Plex.update_watched: the server after the call.
update_watched(server_world, server, watched_list, items_to_remove_list, dryrun, ts) ==
    [u \in DOMAIN server_world |->
        [l \in DOMAIN server_world[u] |->
            LET has_update == u \in DOMAIN watched_list /\ l \in DOMAIN watched_list[u]
                has_remove == u \in DOMAIN items_to_remove_list
                              /\ l \in DOMAIN items_to_remove_list[u]
            IN  IF has_update \/ has_remove
                THEN update_user_watched(
                         server_world[u][l], server,
                         IF has_update THEN watched_list[u][l]
                         ELSE LibraryData(l, <<>>, <<>>),
                         IF has_remove THEN <<items_to_remove_list[u][l]>> ELSE <<>>,
                         dryrun, ts)
                ELSE server_world[u][l]]]

(***************************************************************************)
(* The state of a run of main_loop's watched synchronisation.              *)
(*                                                                         *)
(*   saved               the watched state file                            *)
(*   state               synchronize_watched's local `state`               *)
(*   pc                  the stage synchronize_watched is at               *)
(*   server_watched_data the snapshots collected by the fetch stage        *)
(*   order               the insertion order of server_watched_data        *)
(*   tombstones          the tombstones of the current cycle               *)
(*   dryrun              the DRYRUN setting                                *)
(*   processed           the servers whose process_server_sync returned or *)
(*                       raised                                            *)
(* History kept for the properties:                                        *)
(*   loaded              the state the cycle loaded                        *)
(*   prune_log           what the prune stage removed, with its user and   *)
(*                       library                                           *)
(*   payloads            the payloads process_server_sync computed          *)
(*   fetch_failed        the servers whose get_watched raised              *)
(*   push_failed         the servers whose update_watched raised           *)
(*   aborted             <<s>> when the enumeration of s raised, else <<>> *)
(*   effective           every push of the cycle left the server reporting *)
(*                       what was pushed                                   *)
(*   last                the previous cycle, as long as nothing changed    *)
(*                       on the servers since                              *)
(***************************************************************************)
VARIABLES saved, state, pc, server_watched_data, order, tombstones, dryrun,
          processed, loaded, prune_log, payloads, fetch_failed, push_failed,
          aborted, effective, last, cycles, user_actions, faults

\* The variables of the specification that applies merge_media_item_to_list
\* to lists and items drawn from bounded sets: the list, the items still to
\* be merged into it, and for every merge done the list it was applied to
\* and the item merged.
VARIABLES target_list, sources, merge_log

mergeVars == <<target_list, sources, merge_log>>

(***************************************************************************)
(* The state of main_loop's playlist synchronisation (main.py, lines       *)
(* 122-231).                                                               *)
(*                                                                         *)
(*   playlists         playlists[s][u][title]: the items of a user's       *)
(*                     playlist on server s, in order                      *)
(*   playlist_saved    the playlist state file                             *)
(*   playlist_state    main_loop's playlist_state, as loaded               *)
(*   server_data       the playlists gathered from the servers             *)
(*   new_state         the state synchronize_playlists returned            *)
(*   actions           the actions it returned, server -> user -> list     *)
(*   trashed_registry  its trashed_registry                                *)
(*   pl_pc             where the playlist part of main_loop is             *)
(*   next_server       the index in servers of the next server whose       *)
(*                     actions are executed                                *)
(* History kept for the properties:                                        *)
(*   pl_failed         a driver call raised in the cycle                   *)
(*   pl_effective      every execution of the cycle left the server with   *)
(*                     what the actions asked for                          *)
(*   pl_last           the previous cycle, as long as no playlist was      *)
(*                     edited on a server since                            *)
(***************************************************************************)
VARIABLES playlists, playlist_saved, playlist_state, server_data, new_state,
          actions, trashed_registry, pl_pc, next_server, pl_failed, pl_effective,
          pl_last, pl_cycles, pl_edits, pl_faults

playlistVars == <<playlists, playlist_saved, playlist_state, server_data, new_state,
                  actions, trashed_registry, pl_pc, next_server, pl_failed,
                  pl_effective, pl_last, pl_cycles, pl_edits, pl_faults>>

\* The variables of the specification that applies check_same_identifiers to
\* identifiers drawn from a bounded set: the two arguments and, once it was
\* applied, what it returned for them in either order.
VARIABLES ids1, ids2, match_log

matchVars == <<ids1, ids2, match_log>>

\* The variables of main(): the environment it reads (env), the kind of
\* content of the two state files (files), the state files that have a
\* ".corrupted" copy (corrupted), what the last load of each state file did
\* (loads), where main() is (main_pc), the number of connected servers
\* (connected), the duration the last sleep was given (waited), the exit code of
\* the process once it ended (exit_code), and whether main_loop was ever
\* called (cycle_run) and whether the loop ever caught an error (error_caught).
VARIABLES env, files, corrupted, loads, main_pc, connected, waited, exit_code,
          cycle_run, error_caught

mainVars == <<env, files, corrupted, loads, main_pc, connected, waited, exit_code,
              cycle_run, error_caught>>

restVars == <<matchVars, mainVars>>

auxVars == <<mergeVars, playlistVars, restVars>>

cycleVars == <<world, now, saved, state, pc, server_watched_data, order, tombstones,
               dryrun, processed, loaded, prune_log, payloads, fetch_failed,
               push_failed, aborted, effective, last, cycles, user_actions, faults>>

vars == <<cycleVars, auxVars>>

Users == {"u1"}

Libraries == {"Movies", "TV"}

MediaOf(l) == IF LibraryType(l) = "movie" THEN Movies ELSE Episodes

\* The values of DRYRUN the runs are started with.
DryrunModes == {FALSE}

\* viewOffset values a user leaves an item at.
ProgressTimes == {200000, 230000, 300000}

\* One second of the servers' clocks is 1000 here.
Tick == 1000

NoCycle == [clean |-> FALSE, pushed |-> FALSE, whole |-> FALSE]

\* The playlist titles and the media users put on playlists.
Titles == {"Faves"}

PlaylistMedia == {"X", "Y", "Z"}

\* What a user leaves a playlist at between two cycles: on the server every
\* playlist is a list of media.
PlaylistContents ==
    {<<"X">>, <<"Y">>, <<"Z">>, <<"X", "Y">>, <<"X", "Z">>, <<"Y", "Z">>,
     <<"X", "Y", "Z">>}

NoPlaylistCycle == [clean |-> FALSE, acted |-> FALSE, whole |-> FALSE]

\* Before the first playlist synchronisation: no server has a playlist and
\* there is no playlist state file.
PlaylistAtRest ==
    /\ playlists = [s \in ServerIds |-> [u \in Users |-> EmptyDict]]
    /\ playlist_saved = EmptyDict
    /\ playlist_state = EmptyDict
    /\ server_data = EmptyDict
    /\ new_state = EmptyDict
    /\ actions = EmptyDict
    /\ trashed_registry = EmptyDict
    /\ pl_pc = "idle"
    /\ next_server = 1
    /\ pl_failed = FALSE
    /\ pl_effective = TRUE
    /\ pl_last = NoPlaylistCycle
    /\ pl_cycles = 0
    /\ pl_edits = 0
    /\ pl_faults = 0

\* The watched synchronisation after construction, but for the DRYRUN
\* setting: nothing is watched, there is no state file and no cycle was run.
WatchedAtRest ==
    /\ world = [s \in ServerIds |-> [u \in Users |-> [l \in Libraries |->
                   [m \in MediaOf(l) |-> Unwatched]]]]
    /\ now = 0
    /\ saved = EmptyDict
    /\ state = EmptyDict
    /\ pc = "idle"
    /\ server_watched_data = EmptyDict
    /\ order = <<>>
    /\ tombstones = {}
    /\ processed = {}
    /\ loaded = EmptyDict
    /\ prune_log = {}
    /\ payloads = EmptyDict
    /\ fetch_failed = {}
    /\ push_failed = {}
    /\ aborted = <<>>
    /\ effective = TRUE
    /\ last = NoCycle
    /\ cycles = 0
    /\ user_actions = 0
    /\ faults = 0

MergeAtRest ==
    /\ target_list = <<>>
    /\ sources = <<>>
    /\ merge_log = <<>>

MatchAtRest ==
    /\ ids1 = MediaIdentifiers(Absent, {}, Absent, Absent, Absent, NoGuid)
    /\ ids2 = MediaIdentifiers(Absent, {}, Absent, Absent, Absent, NoGuid)
    /\ match_log = <<>>

\* The two state files.
StateFiles == {"watched", "playlist"}

\* No load of the state file yet.
NoLoad ==
    [kind |-> "none", copy_ok |-> FALSE, returned |-> "none", backup |-> FALSE,
     raised |-> FALSE]

\* No exit code: the process runs.  Once it ended, exit_code holds the code.
Running == <<>>

\* The defaults of the environment: the os.getenv defaults of main() and of
\* generate_server_connections, and DEBUG_LEVEL "INFO".
DefaultEnv ==
    [run_only_once |-> FALSE, sync_cron |-> "none", level |-> "INFO",
     baseurl |-> 0, token |-> 0, username |-> 0, password |-> 0, servername |-> 0]

MainAtRest ==
    /\ env = DefaultEnv
    /\ files = [f \in StateFiles |-> "absent"]
    /\ corrupted = {}
    /\ loads = [f \in StateFiles |-> NoLoad]
    /\ main_pc = "start"
    /\ connected = 0
    /\ waited = "none"
    /\ exit_code = Running
    /\ cycle_run = FALSE
    /\ error_caught = FALSE

RestAtRest == MatchAtRest /\ MainAtRest

\* Everything but the DRYRUN setting after construction.
AtRest == WatchedAtRest /\ MergeAtRest /\ PlaylistAtRest /\ RestAtRest

Init == AtRest /\ dryrun \in DryrunModes

\* What the prune stage removes from g_state, each entry with the user and
\* the library it was removed from.
PruneLog(g_state, swd) ==
    UNION {UNION {
        {[user |-> g_user, library |-> g_lib_name, kind |-> t.kind,
          identifiers |-> t.identifiers] :
            t \in PruneLibrary(swd, g_user, g_lib_name,
                               g_state[g_user][g_lib_name]).tombstones} :
        g_lib_name \in DOMAIN g_state[g_user]} : g_user \in DOMAIN g_state}

\* The movies and episodes of a LibraryData, as one list.
RECURSIVE EpisodesOf(_, _)
EpisodesOf(series, i) ==
    IF i > Len(series) THEN <<>>
    ELSE series[i].episodes \o EpisodesOf(series, i + 1)

ItemsOf(library_data) == library_data.movies \o EpisodesOf(library_data.series, 1)

\* The status a server reports for a video (get_mediaitem, lines 152-156).
Reported(video) == WatchedStatus(video.isWatched, video.viewOffset, video.lastViewedAt)

\* The video would be listed by a fetch (lines 567-568, 688-692).
Listed(video) == video.isWatched \/ video.viewOffset >= ProgressThreshold

\* After a push the server holds every pushed item with the pushed status
\* and lists none of the items it was told to unmark.
TookEffect(server_world, server, update_payload, remove_payload) ==
    /\ \A u \in DOMAIN update_payload : \A l \in DOMAIN update_payload[u] :
         LET items == ItemsOf(update_payload[u][l])
         IN  \A i \in 1..Len(items) :
               \E m \in DOMAIN server_world[u][l] :
                  /\ check_same_identifiers(extract_identifiers_from_item(server, m),
                                            items[i].identifiers)
                  /\ Listed(server_world[u][l][m])
                  /\ IdenticalStatus(Reported(server_world[u][l][m]), items[i].status)
    /\ \A u \in DOMAIN remove_payload : \A l \in DOMAIN remove_payload[u] :
         LET items == ItemsOf(remove_payload[u][l])
         IN  \A i \in 1..Len(items) :
               \A m \in DOMAIN server_world[u][l] :
                  check_same_identifiers(extract_identifiers_from_item(server, m),
                                         items[i].identifiers)
                     => ~Listed(server_world[u][l][m])

(***************************************************************************)
(* The actions.                                                            *)
(***************************************************************************)
\* A user of a server watches an item to the end, leaves it part-way, or
\* marks it unwatched.
UserAction(s, u, l, m, video) ==
    /\ pc = "idle"
    /\ user_actions < MaxUserActions
    /\ cycles < MaxCycles
    /\ [isWatched |-> world[s][u][l][m].isWatched,
        viewOffset |-> world[s][u][l][m].viewOffset]
         # [isWatched |-> video.isWatched, viewOffset |-> video.viewOffset]
    /\ now' = now + Tick
    /\ world' = [world EXCEPT ![s][u][l][m] =
                    IF video = Unwatched THEN Unwatched
                    ELSE [video EXCEPT !.lastViewedAt = <<now'>>]]
    /\ user_actions' = user_actions + 1
    /\ last' = NoCycle
    /\ UNCHANGED auxVars
    /\ UNCHANGED <<saved, state, pc, server_watched_data, order, tombstones, dryrun,
                   processed, loaded, prune_log, payloads, fetch_failed, push_failed,
                   aborted, effective, cycles, faults>>

\* synchronize_watched, line 307: state = load_watched_state().
StartCycle ==
    /\ pc = "idle"
    /\ cycles < MaxCycles
    /\ cycles' = cycles + 1
    /\ now' = now + Tick
    /\ state' = saved
    /\ loaded' = saved
    /\ pc' = "fetch"
    /\ server_watched_data' = EmptyDict
    /\ order' = <<>>
    /\ tombstones' = {}
    /\ processed' = {}
    /\ prune_log' = {}
    /\ payloads' = EmptyDict
    /\ fetch_failed' = {}
    /\ push_failed' = {}
    /\ aborted' = <<>>
    /\ effective' = TRUE
    /\ UNCHANGED auxVars
    /\ UNCHANGED <<world, saved, dryrun, last, user_actions, faults>>

\* Lines 340-360: server.get_users() or server.get_libraries() raises in
\* the submitting loop; nothing catches it inside synchronize_watched.
FetchAbort(s) ==
    /\ pc = "fetch"
    /\ order = <<>>
    /\ fetch_failed = {}
    /\ faults < MaxFaults
    /\ faults' = faults + 1
    /\ aborted' = <<s>>
    /\ pc' = "idle"
    /\ last' = NoCycle
    /\ UNCHANGED auxVars
    /\ UNCHANGED <<world, now, saved, state, server_watched_data, order, tombstones,
                   dryrun, processed, loaded, prune_log, payloads, fetch_failed,
                   push_failed, effective, cycles, user_actions>>

\* Lines 362-366: a get_watched future completes with its snapshot.
FetchServer(s) ==
    /\ pc = "fetch"
    /\ s \notin (DOMAIN server_watched_data) \cup fetch_failed
    /\ server_watched_data' = DictSet(server_watched_data, s, get_watched(s, state))
    /\ order' = Append(order, s)
    /\ UNCHANGED auxVars
    /\ UNCHANGED <<world, now, saved, state, pc, tombstones, dryrun, processed, loaded,
                   prune_log, payloads, fetch_failed, push_failed, aborted, effective,
                   last, cycles, user_actions, faults>>

\* Lines 367-368: a get_watched future raises; the error is logged.
FetchFail(s) ==
    /\ pc = "fetch"
    /\ s \notin (DOMAIN server_watched_data) \cup fetch_failed
    /\ faults < MaxFaults
    /\ faults' = faults + 1
    /\ fetch_failed' = fetch_failed \cup {s}
    /\ UNCHANGED auxVars
    /\ UNCHANGED <<world, now, saved, state, pc, server_watched_data, order, tombstones,
                   dryrun, processed, loaded, prune_log, payloads, push_failed, aborted,
                   effective, last, cycles, user_actions>>

\* A fetch stage that is left as soon as one future has completed.
FetchStageDone_FirstFuture(fetched, failed) == fetched \cup failed # {}

\* Lines 362-368 and the end of the `with` block: as_completed has yielded
\* the future of every server, each with a snapshot or an exception.
FetchStageDone(fetched, failed) == fetched \cup failed = ServerIds

\* Lines 374-498.
PruneStage ==
    /\ pc = "fetch"
    /\ FetchStageDone(DOMAIN server_watched_data, fetch_failed)
    /\ state' = Prune(state, server_watched_data).state
    /\ tombstones' = Prune(state, server_watched_data).tombstones
    /\ prune_log' = PruneLog(state, server_watched_data)
    /\ pc' = "merge"
    /\ UNCHANGED auxVars
    /\ UNCHANGED <<world, now, saved, server_watched_data, order, dryrun, processed,
                   loaded, payloads, fetch_failed, push_failed, aborted, effective,
                   last, cycles, user_actions, faults>>

\* Lines 505-547: the merge and the save that follows it.
MergeStage ==
    /\ pc = "merge"
    /\ state' = Merge(state, server_watched_data, order, 1, tombstones)
    /\ saved' = state'
    /\ pc' = "mark"
    /\ UNCHANGED auxVars
    /\ UNCHANGED <<world, now, server_watched_data, order, tombstones, dryrun,
                   processed, loaded, prune_log, payloads, fetch_failed, push_failed,
                   aborted, effective, last, cycles, user_actions, faults>>

\* Lines 554-614: mark already-synced items and save.
MarkStage ==
    /\ pc = "mark"
    /\ state' = MarkAlreadySynced(state, server_watched_data, 1, now)
    /\ saved' = state'
    /\ pc' = "push"
    /\ UNCHANGED auxVars
    /\ UNCHANGED <<world, now, server_watched_data, order, tombstones, dryrun,
                   processed, loaded, prune_log, payloads, fetch_failed, push_failed,
                   aborted, effective, last, cycles, user_actions, faults>>

\* process_server_sync(server) returns: lines 620-753.
Push(s) ==
    LET update_payload == UpdatePayload(state, server_watched_data, s)
        remove_payload == RemovePayload(state, server_watched_data, s)
        called == update_payload # EmptyDict \/ remove_payload # EmptyDict
    IN  /\ pc = "push"
        /\ s \notin processed
        /\ processed' = processed \cup {s}
        /\ payloads' = DictSet(payloads, s, [update |-> update_payload,
                                             remove |-> remove_payload])
        /\ world' = IF called
                    THEN [world EXCEPT ![s] = update_watched(@, s, update_payload,
                                                  remove_payload, dryrun, now)]
                    ELSE world
        /\ state' = IF called THEN StampPushed(state, update_payload, s, now)
                    ELSE state
        /\ effective' = (effective /\ TookEffect(world'[s], s, update_payload,
                                                 remove_payload))
        /\ UNCHANGED auxVars
        /\ UNCHANGED <<now, saved, pc, server_watched_data, order, tombstones, dryrun,
                       loaded, prune_log, fetch_failed, push_failed, aborted, last,
                       cycles, user_actions, faults>>

\* A failed push whose exception leaves synchronize_watched.
PushFail_EndingCycle(s) ==
    LET update_payload == UpdatePayload(state, server_watched_data, s)
        remove_payload == RemovePayload(state, server_watched_data, s)
    IN  /\ pc = "push"
        /\ s \notin processed
        /\ update_payload # EmptyDict \/ remove_payload # EmptyDict
        /\ faults < MaxFaults
        /\ faults' = faults + 1
        /\ processed' = processed \cup {s}
        /\ push_failed' = push_failed \cup {s}
        /\ payloads' = DictSet(payloads, s, [update |-> update_payload,
                                             remove |-> remove_payload])
        /\ pc' = "idle"
        /\ UNCHANGED auxVars
        /\ UNCHANGED <<world, now, saved, state, server_watched_data, order,
                       tombstones, dryrun, loaded, prune_log, fetch_failed, aborted,
                       effective, last, cycles, user_actions>>

\* A push that stamps the ledger although server.update_watched raised.
PushFail_Stamping(s) ==
    LET update_payload == UpdatePayload(state, server_watched_data, s)
        remove_payload == RemovePayload(state, server_watched_data, s)
    IN  /\ pc = "push"
        /\ s \notin processed
        /\ update_payload # EmptyDict \/ remove_payload # EmptyDict
        /\ faults < MaxFaults
        /\ faults' = faults + 1
        /\ processed' = processed \cup {s}
        /\ push_failed' = push_failed \cup {s}
        /\ payloads' = DictSet(payloads, s, [update |-> update_payload,
                                             remove |-> remove_payload])
        /\ state' = StampPushed(state, update_payload, s, now)
        /\ UNCHANGED auxVars
        /\ UNCHANGED <<world, now, saved, pc, server_watched_data, order,
                       tombstones, dryrun, loaded, prune_log, fetch_failed, aborted,
                       effective, last, cycles, user_actions>>

\* process_server_sync(server) raises out of server.update_watched, before
\* the driver changed anything: lines 715 and 763-766.
PushFail(s) ==
    LET update_payload == UpdatePayload(state, server_watched_data, s)
        remove_payload == RemovePayload(state, server_watched_data, s)
    IN  /\ pc = "push"
        /\ s \notin processed
        /\ update_payload # EmptyDict \/ remove_payload # EmptyDict
        /\ faults < MaxFaults
        /\ faults' = faults + 1
        /\ processed' = processed \cup {s}
        /\ push_failed' = push_failed \cup {s}
        /\ payloads' = DictSet(payloads, s, [update |-> update_payload,
                                             remove |-> remove_payload])
        /\ UNCHANGED auxVars
        /\ UNCHANGED <<world, now, saved, state, pc, server_watched_data, order,
                       tombstones, dryrun, loaded, prune_log, fetch_failed, aborted,
                       effective, last, cycles, user_actions>>

\* Lines 759-769: every future was collected; the final save.
EndCycle ==
    /\ pc = "push"
    /\ processed = ServerIds
    /\ saved' = state
    /\ pc' = "idle"
    /\ last' = [clean |-> fetch_failed = {} /\ push_failed = {} /\ effective,
                pushed |-> \E s \in ServerIds :
                              \/ payloads[s].update # EmptyDict
                              \/ payloads[s].remove # EmptyDict,
                whole |-> fetch_failed = {} /\ push_failed = {}]
    /\ UNCHANGED auxVars
    /\ UNCHANGED <<world, now, state, server_watched_data, order, tombstones, dryrun,
                   processed, loaded, prune_log, payloads, fetch_failed, push_failed,
                   aborted, effective, cycles, user_actions, faults>>

\* What a user action leaves an item of library l at: movies are watched,
\* left part-way or unmarked, episodes watched or unmarked.
UserVideos(l) ==
    {Unwatched, [isWatched |-> TRUE, viewOffset |-> 0, lastViewedAt |-> NoTime]}
      \cup {[isWatched |-> FALSE, viewOffset |-> t, lastViewedAt |-> NoTime] :
              t \in IF LibraryType(l) = "movie" THEN ProgressTimes ELSE {}}

Next ==
    \/ \E s \in ServerIds, u \in Users, l \in Libraries :
         \E m \in MediaOf(l), video \in UserVideos(l) : UserAction(s, u, l, m, video)
    \/ StartCycle
    \/ \E s \in ServerIds : FetchAbort(s)
    \/ \E s \in ServerIds : FetchServer(s)
    \/ \E s \in ServerIds : FetchFail(s)
    \/ PruneStage
    \/ MergeStage
    \/ MarkStage
    \/ \E s \in ServerIds : Push(s)
    \/ \E s \in ServerIds : PushFail(s)
    \/ EndCycle

Spec == Init /\ [][Next]_vars

\* Every stage of a started cycle is eventually run.
FairSpec == Spec /\ WF_vars(Next)

(***************************************************************************)
(* merge_media_item_to_list on its own: the list and the incoming items    *)
(* are drawn from bounded sets, over identifiers that match one another in *)
(* every way check_same_identifiers knows (an external id, the plex guid,  *)
(* a file name) or not at all.                                             *)
(***************************************************************************)
\* How many items are merged into the list, one after the other.
MaxSources == 1

MergeIdentifiers ==
    {MediaIdentifiers("M", {<<"a.mkv">>}, "tt1", Absent, Absent, <<"plex", "M1">>),
     MediaIdentifiers("M", {<<"b.mkv">>}, "tt1", Absent, "11", <<"plex", "X1">>),
     MediaIdentifiers("M", {<<"c.mkv">>}, Absent, Absent, "11", NoGuid),
     MediaIdentifiers("M", {<<"dir", "a.mkv">>}, Absent, Absent, Absent, <<"M1">>),
     MediaIdentifiers("N", {<<"d.mkv">>}, "tt2", Absent, Absent, <<"plex", "N1">>),
     MediaIdentifiers("U", {}, Absent, Absent, Absent, NoGuid)}

MergeStatuses ==
    {WatchedStatus(c.completed, c.time, t) :
        c \in {[completed |-> TRUE, time |-> 0]}
                 \cup {[completed |-> FALSE, time |-> x] : x \in ProgressTimes},
        t \in {NoTime, <<1000>>, <<2000>>}}

\* Incoming items are built by get_mediaitem: their ledger is empty.
SourceItems == {MediaItem(ids, st) : ids \in MergeIdentifiers, st \in MergeStatuses}

\* Items of the global state: their ledger is empty or records a completed
\* status for server A.
TargetItems ==
    SourceItems \cup
        {[item EXCEPT !.synced_to_servers =
             DictSet(EmptyDict, "A",
                     ServerSyncInfo(1000, WatchedStatus(TRUE, 0, <<1000>>)))] :
            item \in SourceItems}

RECURSIVE SeqsUpTo(_, _)
SeqsUpTo(S, n) ==
    IF n = 0 THEN {<<>>}
    ELSE SeqsUpTo(S, n - 1)
           \cup {Append(q, x) : q \in {r \in SeqsUpTo(S, n - 1) : Len(r) = n - 1}, x \in S}

InitMerge ==
    /\ WatchedAtRest
    /\ dryrun = FALSE
    /\ target_list \in {<<>>} \cup {<<t>> : t \in TargetItems}
    /\ sources \in SeqsUpTo(SourceItems, MaxSources) \ {<<>>}
    /\ merge_log = <<>>
    /\ PlaylistAtRest
    /\ RestAtRest

\* merge_media_item_to_list(target_list, source_item) for the next item.
MergeOne ==
    /\ sources # <<>>
    /\ target_list' = merge_media_item_to_list(target_list, Head(sources))
    /\ sources' = Tail(sources)
    /\ merge_log' = Append(merge_log, [before |-> target_list, source |-> Head(sources)])
    /\ UNCHANGED <<cycleVars, playlistVars, restVars>>

NextMerge == MergeOne

SpecMerge == InitMerge /\ [][NextMerge]_vars

(***************************************************************************)
(* check_same_identifiers on its own, over identifiers that differ in      *)
(* their file names, their external ids and the form of their plex_guid.   *)
(***************************************************************************)
MatchLocations ==
    {{}, {<<"a.mkv">>}, {<<"dir", "a.mkv">>, <<"b.mkv">>}, {<<"c.mkv">>}}

MatchGuids ==
    {NoGuid, <<"">>, <<"plex", "M1">>, <<"M1">>, <<"com.plexapp.agents.imdb", "M1">>,
     <<"plex", "N1">>}

MatchIdentifiers ==
    {MediaIdentifiers("M", locations, imdb_id, tvdb_id, tmdb_id, plex_guid) :
        locations \in MatchLocations, imdb_id \in {Absent, "tt1", "tt2"},
        tvdb_id \in {Absent, "101"}, tmdb_id \in {Absent, "11"},
        plex_guid \in MatchGuids}

InitMatch ==
    /\ WatchedAtRest
    /\ dryrun = FALSE
    /\ MergeAtRest
    /\ PlaylistAtRest
    /\ MainAtRest
    /\ ids1 \in MatchIdentifiers
    /\ ids2 \in MatchIdentifiers
    /\ match_log = <<>>

\* check_same_identifiers is called on the pair, in either order.
CompareIdentifiers ==
    /\ match_log = <<>>
    /\ match_log' = <<[forth |-> check_same_identifiers(ids1, ids2),
                       back |-> check_same_identifiers(ids2, ids1)]>>
    /\ UNCHANGED <<ids1, ids2>>
    /\ UNCHANGED <<cycleVars, mergeVars, playlistVars, mainVars>>

NextMatch == CompareIdentifiers

SpecMatch == InitMatch /\ [][NextMatch]_vars

(***************************************************************************)
(* Plex.get_playlists (plex.py, lines 796-897).  A playlist state is       *)
(* user -> title -> list of MediaIdentifiers, each with its own            *)
(* synced_to_servers.                                                      *)
(***************************************************************************)
\* The order in which a dict of playlists is walked.
TitleOrder == <<"Faves">>

\* Every item of every playlist of a user, in the order the loops of lines
\* 832-845 meet them.
RECURSIVE AllPlaylistItems(_, _)
AllPlaylistItems(u_pl, i) ==
    IF i > Len(TitleOrder) THEN <<>>
    ELSE (IF TitleOrder[i] \in DOMAIN u_pl THEN u_pl[TitleOrder[i]] ELSE <<>>)
            \o AllPlaylistItems(u_pl, i + 1)

\* The keys an item of the previous state is filed under in prev_items_map.
PrevItemKeys(item) ==
    GuidKeys(item.plex_guid) \cup {<<Basename(loc)>> : loc \in item.locations}

\* Lines 855-881: the identifiers a playlist item is reported with, those of
\* the previous state when a file name or the guid is found there.
PlaylistItemIds(server, m, prev_items) ==
    LET v_guid == NativeGuid(server, m)
        locs == NativeLocations(server, m)
        v_fnames == [i \in 1..Len(locs) |-> <<Basename(locs[i])>>]
        by_file == FirstLookup(prev_items, PrevItemKeys, v_fnames)
        by_guid == IF GuidTruthy(v_guid)
                   THEN FirstLookup(prev_items, PrevItemKeys,
                                    <<v_guid, <<GuidSuffix(v_guid)>>>>)
                   ELSE <<>>
    IN  IF by_file # <<>> THEN by_file[1]
        ELSE IF by_guid # <<>> THEN by_guid[1]
             ELSE extract_identifiers_from_item(server, m)

\* users_playlists: a playlist without items is not reported.
get_playlists(server, server_playlists, existing_playlist_state) ==
    [u \in DOMAIN server_playlists |->
        LET prev_items == IF u \in DOMAIN existing_playlist_state
                          THEN AllPlaylistItems(existing_playlist_state[u], 1)
                          ELSE <<>>
            titles == {t \in DOMAIN server_playlists[u] : server_playlists[u][t] # <<>>}
        IN  [t \in titles |->
                [i \in 1..Len(server_playlists[u][t]) |->
                    PlaylistItemIds(server, server_playlists[u][t][i], prev_items)]]]

(***************************************************************************)
(* synchronize_playlists (playlists.py, lines 88-291).                     *)
(***************************************************************************)
\* merge_identifiers, lines 81-86.
merge_identifiers(target, source) ==
    [target EXCEPT
        !.imdb_id = IF ~Truthy(@) /\ Truthy(source.imdb_id) THEN source.imdb_id ELSE @,
        !.tvdb_id = IF ~Truthy(@) /\ Truthy(source.tvdb_id) THEN source.tvdb_id ELSE @,
        !.tmdb_id = IF ~Truthy(@) /\ Truthy(source.tmdb_id) THEN source.tmdb_id ELSE @,
        !.locations = IF source.locations # {} THEN @ \cup source.locations ELSE @]

\* The snapshots in the order server_playlists.items() yields them.
GatherOrder(server_playlists) == SelectSeq(servers, LAMBDA s : s \in DOMAIN server_playlists)

\* The (user, title) pairs a snapshot and a state both have.
SharedPlaylists(pl_state, s_users) ==
    {k \in Users \X Titles :
        /\ k[1] \in DOMAIN s_users /\ k[1] \in DOMAIN pl_state
        /\ k[2] \in DOMAIN s_users[k[1]] /\ k[2] \in DOMAIN pl_state[k[1]]}

\* Lines 145-153: the items of a state playlist stamped for the server and
\* missing from its snapshot.
ItemsToRemove(state_items, s_items, s_id) ==
    SelectSeq(state_items,
        LAMBDA st_item :
            /\ s_id \in DOMAIN st_item.synced_to_servers
            /\ ~AnyInSeq(s_items, LAMBDA s_item : check_same_identifiers(st_item, s_item)))

\* Phase 1 (lines 123-164), from snapshot number i on: the state and the
\* trashed registry.
RECURSIVE DetectDeletions(_, _, _, _)
DetectDeletions(pl_state, trashed, server_playlists, i) ==
    LET order_ == GatherOrder(server_playlists)
    IN  IF i > Len(order_) THEN [state |-> pl_state, trashed |-> trashed]
        ELSE LET s_id == order_[i]
                 s_users == server_playlists[s_id]
                 Gone(k) == ItemsToRemove(pl_state[k[1]][k[2]], s_users[k[1]][k[2]], s_id)
                 hit == {k \in SharedPlaylists(pl_state, s_users) : Gone(k) # <<>>}
                 pruned == [u \in DOMAIN pl_state |-> [t \in DOMAIN pl_state[u] |->
                               IF <<u, t>> \in hit
                               THEN SelectSeq(pl_state[u][t],
                                        LAMBDA x : ~AnyInSeq(Gone(<<u, t>>),
                                                             LAMBDA r : r = x))
                               ELSE pl_state[u][t]]]
                 registry == [k \in (DOMAIN trashed) \cup hit |->
                                 (IF k \in DOMAIN trashed THEN trashed[k] ELSE <<>>)
                                    \o (IF k \in hit THEN Gone(k) ELSE <<>>)]
             IN  DetectDeletions(pruned, registry, server_playlists, i + 1)

\* Lines 190-206 without the test of lines 191-193: a trashed item is merged
\* like any other.
RECURSIVE MergePlaylistItems_IgnoringTrashed(_, _, _, _)
MergePlaylistItems_IgnoringTrashed(state_items, s_items, i, trashed_items) ==
    IF i > Len(s_items) THEN state_items
    ELSE LET s_item == s_items[i]
             k == FirstIndex(state_items,
                             LAMBDA st_item : check_same_identifiers(s_item, st_item))
         IN  IF k # 0
             THEN MergePlaylistItems_IgnoringTrashed(
                      [state_items EXCEPT ![k] = merge_identifiers(@, s_item)],
                      s_items, i + 1, trashed_items)
             ELSE MergePlaylistItems_IgnoringTrashed(Append(state_items, s_item),
                                                     s_items, i + 1, trashed_items)

\* Lines 190-206, from item number i of the snapshot playlist on.
RECURSIVE MergePlaylistItems(_, _, _, _)
MergePlaylistItems(state_items, s_items, i, trashed_items) ==
    IF i > Len(s_items) THEN state_items
    ELSE LET s_item == s_items[i]
             k == FirstIndex(state_items,
                             LAMBDA st_item : check_same_identifiers(s_item, st_item))
         IN  IF AnyInSeq(trashed_items,
                         LAMBDA t_item : check_same_identifiers(s_item, t_item))
             THEN MergePlaylistItems(state_items, s_items, i + 1, trashed_items)
             ELSE IF k # 0
                  THEN MergePlaylistItems(
                           [state_items EXCEPT ![k] = merge_identifiers(@, s_item)],
                           s_items, i + 1, trashed_items)
                  ELSE MergePlaylistItems(Append(state_items, s_item), s_items, i + 1,
                                          trashed_items)

\* Phase 2 (lines 167-206), from snapshot number i on.
RECURSIVE MergeAdditions(_, _, _, _)
MergeAdditions(pl_state, trashed, server_playlists, i) ==
    LET order_ == GatherOrder(server_playlists)
    IN  IF i > Len(order_) THEN pl_state
        ELSE LET s_users == server_playlists[order_[i]]
                 Old(u, t) == IF u \in DOMAIN pl_state /\ t \in DOMAIN pl_state[u]
                              THEN pl_state[u][t] ELSE <<>>
                 TitlesOf(u) == (IF u \in DOMAIN pl_state THEN DOMAIN pl_state[u] ELSE {})
                                   \cup (IF u \in DOMAIN s_users THEN DOMAIN s_users[u]
                                         ELSE {})
                 merged == [u \in (DOMAIN pl_state) \cup (DOMAIN s_users) |->
                              [t \in TitlesOf(u) |->
                                  IF u \in DOMAIN s_users /\ t \in DOMAIN s_users[u]
                                  THEN MergePlaylistItems(Old(u, t), s_users[u][t], 1,
                                           IF <<u, t>> \in DOMAIN trashed
                                           THEN trashed[<<u, t>>] ELSE <<>>)
                                  ELSE Old(u, t)]]
             IN  MergeAdditions(merged, trashed, server_playlists, i + 1)

\* Lines 230-238: every server item stamps its first match in the state.
MarkPlaylistItems(g_items, s_items, s_id, current_ts) ==
    [i \in 1..Len(g_items) |->
        IF \E j \in 1..Len(s_items) :
              FirstIndex(g_items,
                         LAMBDA g_item : check_same_identifiers(s_items[j], g_item)) = i
        THEN [g_items[i] EXCEPT !.synced_to_servers =
                 DictSet(@, s_id,
                         ServerSyncInfo(current_ts, WatchedStatus(TRUE, 0, NoTime)))]
        ELSE g_items[i]]

\* Step 3 (lines 211-238), from snapshot number i on.
RECURSIVE MarkPlaylists(_, _, _, _)
MarkPlaylists(pl_state, server_playlists, i, current_ts) ==
    LET order_ == GatherOrder(server_playlists)
    IN  IF i > Len(order_) THEN pl_state
        ELSE LET s_id == order_[i]
                 s_users == server_playlists[s_id]
                 shared == SharedPlaylists(pl_state, s_users)
                 marked == [u \in DOMAIN pl_state |-> [t \in DOMAIN pl_state[u] |->
                               IF <<u, t>> \in shared
                               THEN MarkPlaylistItems(pl_state[u][t], s_users[u][t],
                                                      s_id, current_ts)
                               ELSE pl_state[u][t]]]
             IN  MarkPlaylists(marked, server_playlists, i + 1, current_ts)

SyncAction(action, playlist_title, item) ==
    [action |-> action, playlist_title |-> playlist_title, item |-> item]

\* Lines 262-289 with the test of line 286 made on whole items instead of
\* check_same_identifiers.
RECURSIVE PlaylistActions_ExactMatch(_, _, _, _)
PlaylistActions_ExactMatch(user_state, s_pl, s_id, i) ==
    IF i > Len(TitleOrder) THEN <<>>
    ELSE LET pl_title == TitleOrder[i]
             on_server == pl_title \in DOMAIN s_pl
             server_pl_items == IF on_server THEN s_pl[pl_title] ELSE <<>>
             state_items == user_state[pl_title]
             missing == SelectSeq(state_items,
                            LAMBDA g_item :
                                /\ s_id \notin DOMAIN g_item.synced_to_servers
                                /\ ~AnyInSeq(server_pl_items,
                                       LAMBDA s_item :
                                           check_same_identifiers(g_item, s_item)))
             extra == SelectSeq(server_pl_items,
                          LAMBDA s_item :
                              ~AnyInSeq(state_items, LAMBDA g_item : s_item = g_item))
         IN  IF pl_title \notin DOMAIN user_state
             THEN PlaylistActions_ExactMatch(user_state, s_pl, s_id, i + 1)
             ELSE (IF on_server THEN <<>>
                   ELSE <<SyncAction("create_playlist", pl_title, <<>>)>>)
                     \o [j \in 1..Len(missing) |->
                            SyncAction("add_item", pl_title, <<missing[j]>>)]
                     \o [j \in 1..Len(extra) |->
                            SyncAction("remove_item", pl_title, <<extra[j]>>)]
                     \o PlaylistActions_ExactMatch(user_state, s_pl, s_id, i + 1)

\* Lines 262-289 for one user of one server, from title number i on.
RECURSIVE PlaylistActions(_, _, _, _)
PlaylistActions(user_state, s_pl, s_id, i) ==
    IF i > Len(TitleOrder) THEN <<>>
    ELSE LET pl_title == TitleOrder[i]
             on_server == pl_title \in DOMAIN s_pl
             server_pl_items == IF on_server THEN s_pl[pl_title] ELSE <<>>
             state_items == user_state[pl_title]
             missing == SelectSeq(state_items,
                            LAMBDA g_item :
                                /\ s_id \notin DOMAIN g_item.synced_to_servers
                                /\ ~AnyInSeq(server_pl_items,
                                       LAMBDA s_item :
                                           check_same_identifiers(g_item, s_item)))
             extra == SelectSeq(server_pl_items,
                          LAMBDA s_item :
                              ~AnyInSeq(state_items,
                                   LAMBDA g_item : check_same_identifiers(s_item, g_item)))
         IN  IF pl_title \notin DOMAIN user_state
             THEN PlaylistActions(user_state, s_pl, s_id, i + 1)
             ELSE (IF on_server THEN <<>>
                   ELSE <<SyncAction("create_playlist", pl_title, <<>>)>>)
                     \o [j \in 1..Len(missing) |->
                            SyncAction("add_item", pl_title, <<missing[j]>>)]
                     \o [j \in 1..Len(extra) |->
                            SyncAction("remove_item", pl_title, <<extra[j]>>)]
                     \o PlaylistActions(user_state, s_pl, s_id, i + 1)

\* Step 4 (lines 244-289): server -> user -> list of actions.
AllPlaylistActions(pl_state, server_playlists) ==
    [s \in DOMAIN server_playlists |->
        [u \in {x \in DOMAIN server_playlists[s] : x \in DOMAIN pl_state} |->
            PlaylistActions(pl_state[u], server_playlists[s][u], s, 1)]]

\* synchronize_playlists: the state it saves and returns, its actions, and
\* its trashed registry.
synchronize_playlists(server_playlists, previous_state, current_ts) ==
    LET phase1 == DetectDeletions(previous_state, EmptyDict, server_playlists, 1)
        phase2 == MergeAdditions(phase1.state, phase1.trashed, server_playlists, 1)
        marked == MarkPlaylists(phase2, server_playlists, 1, current_ts)
    IN  [state |-> marked,
         actions |-> AllPlaylistActions(marked, server_playlists),
         trashed |-> phase1.trashed]

(***************************************************************************)
(* The playlist driver (plex.py, lines 1033-1233).                         *)
(***************************************************************************)
\* The order in which plex_server.search lists its results.
SearchOrder == <<"X", "Y", "Z">>

\* _find_item_by_identifiers: <<m>> or <<>> for None.  search(title) yields
\* the media of that title.
FindItemByIdentifiers(server, identifiers) ==
    LET results == SelectSeq(SearchOrder, LAMBDA m : m = identifiers.title)
        k == FirstIndex(results,
                 LAMBDA m : check_same_identifiers(identifiers,
                                extract_identifiers_from_item(server, m)))
    IN  IF k = 0 THEN <<>> ELSE <<results[k]>>

\* The items_to_add of lines 1099-1106 and 1118-1122.
RECURSIVE ItemsToAdd(_, _, _)
ItemsToAdd(server, items, i) ==
    IF i > Len(items) THEN <<>>
    ELSE FindItemByIdentifiers(server, items[i]) \o ItemsToAdd(server, items, i + 1)

\* target_playlist.addItems(items_to_add): the server either appends an item
\* the playlist already holds once more, or leaves it out.
AddItems(playlist_items, items_to_add, keeps_duplicates) ==
    IF keeps_duplicates THEN playlist_items \o items_to_add
    ELSE playlist_items
           \o SelectSeq(items_to_add,
                  LAMBDA m : ~AnyInSeq(playlist_items, LAMBDA x : x = m))

\* update_playlists for one user: user_playlists is what the server holds
\* for the user, playlists_to_sync the playlists of users_to_update.
update_playlists(user_playlists, server, playlists_to_sync, dry, keeps_duplicates) ==
    LET Found(t) == ItemsToAdd(server, playlists_to_sync[t], 1)
        created == {t \in DOMAIN playlists_to_sync :
                       /\ t \notin DOMAIN user_playlists
                       /\ playlists_to_sync[t] # <<>>
                       /\ Found(t) # <<>>
                       /\ ~dry}
    IN  [t \in (DOMAIN user_playlists) \cup created |->
            IF t \in created THEN Found(t)
            ELSE IF t \in DOMAIN playlists_to_sync /\ Found(t) # <<>> /\ ~dry
                 THEN AddItems(user_playlists[t], Found(t), keeps_duplicates)
                 ELSE user_playlists[t]]

\* remove_item_from_playlist for one user.
remove_item_from_playlist(user_playlists, server, playlist_title, item_identifier, dry) ==
    IF playlist_title \notin DOMAIN user_playlists THEN user_playlists
    ELSE LET Hit(m) == check_same_identifiers(extract_identifiers_from_item(server, m),
                                              item_identifier)
             items_to_remove == SelectSeq(user_playlists[playlist_title], Hit)
         IN  IF items_to_remove = <<>> \/ dry THEN user_playlists
             ELSE [user_playlists EXCEPT ![playlist_title] =
                      SelectSeq(@, LAMBDA m : ~Hit(m))]

\* main_loop, lines 183-220, for one user: the remove_item actions are
\* executed as they are met, from action number i on.
RECURSIVE ExecuteRemovals(_, _, _, _, _)
ExecuteRemovals(user_playlists, server, user_acts, i, dry) ==
    IF i > Len(user_acts) THEN user_playlists
    ELSE ExecuteRemovals(
             IF user_acts[i].action = "remove_item"
             THEN remove_item_from_playlist(user_playlists, server,
                      user_acts[i].playlist_title, user_acts[i].item[1], dry)
             ELSE user_playlists,
             server, user_acts, i + 1, dry)

\* users_to_update[user_name].playlists of lines 184-192: the whole state
\* playlist of every title a create_playlist or add_item action names.
UsersToUpdate(user_acts, user_state) ==
    [t \in {user_acts[i].playlist_title :
              i \in {j \in 1..Len(user_acts) :
                       user_acts[j].action \in {"create_playlist", "add_item"}}} |->
        user_state[t]]

\* Lines 176-223 for one server: what the server holds afterwards.
ExecuteActions(server_playlists, server, server_actions, g_state, dry, keeps_duplicates) ==
    [u \in DOMAIN server_playlists |->
        IF u \notin DOMAIN server_actions THEN server_playlists[u]
        ELSE LET removed == ExecuteRemovals(server_playlists[u], server,
                                            server_actions[u], 1, dry)
                 to_update == UsersToUpdate(server_actions[u], g_state[u])
             IN  IF to_update = EmptyDict THEN removed
                 ELSE update_playlists(removed, server, to_update, dry,
                                       keeps_duplicates)]

\* The server holds what the action asked for.
ActionTookEffect(user_playlists, server, act) ==
    LET t == act.playlist_title
        Holds(identifiers) ==
            /\ t \in DOMAIN user_playlists
            /\ AnyInSeq(user_playlists[t],
                   LAMBDA m : check_same_identifiers(
                                  extract_identifiers_from_item(server, m), identifiers))
    IN  CASE act.action = "create_playlist" -> t \in DOMAIN user_playlists
          [] act.action = "add_item" -> Holds(act.item[1])
          [] act.action = "remove_item" -> ~Holds(act.item[1])
          [] OTHER -> TRUE

ActionsTookEffect(server_playlists, server, server_actions) ==
    \A u \in DOMAIN server_actions : \A i \in 1..Len(server_actions[u]) :
        ActionTookEffect(server_playlists[u], server, server_actions[u][i])

\* Some action is planned for some server.
PlannedActions(all_actions) ==
    \E s \in DOMAIN all_actions : \E u \in DOMAIN all_actions[s] :
        all_actions[s][u] # <<>>

(***************************************************************************)
(* The playlist part of main_loop (main.py, lines 126-229).                *)
(***************************************************************************)
MaxPlaylistCycles == 3

MaxPlaylistEdits == 2

MaxPlaylistFaults == 1

\* A user of a server leaves a playlist with other items, or deletes it
\* (content = <<>>).
PlaylistEdit(s, u, t, content) ==
    /\ pl_pc = "idle"
    /\ pl_edits < MaxPlaylistEdits
    /\ pl_cycles < MaxPlaylistCycles
    /\ IF content = <<>> THEN t \in DOMAIN playlists[s][u]
       ELSE IF t \in DOMAIN playlists[s][u] THEN playlists[s][u][t] # content
            ELSE TRUE
    /\ playlists' = [playlists EXCEPT ![s][u] =
                        IF content = <<>>
                        THEN [x \in (DOMAIN @) \ {t} |-> @[x]]
                        ELSE DictSet(@, t, content)]
    /\ pl_edits' = pl_edits + 1
    /\ pl_last' = NoPlaylistCycle
    /\ UNCHANGED <<playlist_saved, playlist_state, server_data, new_state, actions,
                   trashed_registry, pl_pc, next_server, pl_failed, pl_effective,
                   pl_cycles, pl_faults>>
    /\ UNCHANGED <<cycleVars, mergeVars, restVars>>

\* Lines 131-134: playlist_state = load_state(); server_data = {}.
PlaylistLoad ==
    /\ pl_pc = "idle"
    /\ pl_cycles < MaxPlaylistCycles
    /\ pl_cycles' = pl_cycles + 1
    /\ playlist_state' = playlist_saved
    /\ server_data' = EmptyDict
    /\ new_state' = EmptyDict
    /\ actions' = EmptyDict
    /\ trashed_registry' = EmptyDict
    /\ pl_pc' = "gather"
    /\ next_server' = 1
    /\ pl_failed' = FALSE
    /\ pl_effective' = TRUE
    /\ UNCHANGED <<playlists, playlist_saved, pl_last, pl_edits, pl_faults>>
    /\ UNCHANGED <<cycleVars, mergeVars, restVars>>

\* Lines 135-155, one turn of the loop over the servers.
PlaylistGather ==
    /\ pl_pc = "gather"
    /\ next_server <= Len(servers)
    /\ server_data' = DictSet(server_data, servers[next_server],
                              get_playlists(servers[next_server],
                                            playlists[servers[next_server]],
                                            playlist_state))
    /\ next_server' = next_server + 1
    /\ UNCHANGED <<playlists, playlist_saved, playlist_state, new_state, actions,
                   trashed_registry, pl_pc, pl_failed, pl_effective, pl_last,
                   pl_cycles, pl_edits, pl_faults>>
    /\ UNCHANGED <<cycleVars, mergeVars, restVars>>

\* get_playlists raises (plex.py, lines 895-897): the handler of lines
\* 227-229 ends the playlist synchronisation.
PlaylistGatherFail ==
    /\ pl_pc = "gather"
    /\ next_server <= Len(servers)
    /\ pl_faults < MaxPlaylistFaults
    /\ pl_faults' = pl_faults + 1
    /\ pl_failed' = TRUE
    /\ pl_pc' = "idle"
    /\ pl_last' = NoPlaylistCycle
    /\ UNCHANGED <<playlists, playlist_saved, playlist_state, server_data, new_state,
                   actions, trashed_registry, next_server, pl_effective, pl_cycles,
                   pl_edits>>
    /\ UNCHANGED <<cycleVars, mergeVars, restVars>>

\* Line 164: synchronize_playlists, which saves the state before it plans
\* the actions.
PlaylistSynchronize ==
    LET result == synchronize_playlists(server_data, playlist_state, now)
    IN  /\ pl_pc = "gather"
        /\ next_server > Len(servers)
        /\ new_state' = result.state
        /\ actions' = result.actions
        /\ trashed_registry' = result.trashed
        /\ playlist_saved' = result.state
        /\ pl_pc' = "execute"
        /\ next_server' = 1
        /\ UNCHANGED <<playlists, playlist_state, server_data, pl_failed, pl_effective,
                       pl_last, pl_cycles, pl_edits, pl_faults>>
        /\ UNCHANGED <<cycleVars, mergeVars, restVars>>

\* Lines 176-223, one turn of the loop over the servers.
PlaylistExecute(keeps_duplicates) ==
    LET s == servers[next_server]
        called == s \in DOMAIN actions /\ actions[s] # EmptyDict
    IN  /\ pl_pc = "execute"
        /\ next_server <= Len(servers)
        /\ playlists' = IF called
                        THEN [playlists EXCEPT ![s] =
                                 ExecuteActions(@, s, actions[s], new_state, dryrun,
                                                keeps_duplicates)]
                        ELSE playlists
        /\ pl_effective' = (pl_effective
                              /\ (called => ActionsTookEffect(playlists'[s], s, actions[s])))
        /\ next_server' = next_server + 1
        /\ UNCHANGED <<playlist_saved, playlist_state, server_data, new_state, actions,
                       trashed_registry, pl_pc, pl_failed, pl_last, pl_cycles, pl_edits,
                       pl_faults>>
        /\ UNCHANGED <<cycleVars, mergeVars, restVars>>

\* A driver call of the turn raises before it changed the server: the
\* handler of lines 227-229 ends the playlist synchronisation.
PlaylistExecuteFail ==
    LET s == servers[next_server]
    IN  /\ pl_pc = "execute"
        /\ next_server <= Len(servers)
        /\ s \in DOMAIN actions
        /\ \E u \in DOMAIN actions[s] : actions[s][u] # <<>>
        /\ pl_faults < MaxPlaylistFaults
        /\ pl_faults' = pl_faults + 1
        /\ pl_failed' = TRUE
        /\ pl_pc' = "idle"
        /\ pl_last' = NoPlaylistCycle
        /\ UNCHANGED <<playlists, playlist_saved, playlist_state, server_data,
                       new_state, actions, trashed_registry, next_server, pl_effective,
                       pl_cycles, pl_edits>>
        /\ UNCHANGED <<cycleVars, mergeVars, restVars>>

\* Line 225: save_state(new_state).
PlaylistSave ==
    /\ pl_pc = "execute"
    /\ next_server > Len(servers)
    /\ playlist_saved' = new_state
    /\ pl_pc' = "idle"
    /\ pl_last' = [clean |-> ~pl_failed /\ pl_effective,
                   acted |-> PlannedActions(actions),
                   whole |-> ~pl_failed]
    /\ UNCHANGED <<playlists, playlist_state, server_data, new_state, actions,
                   trashed_registry, next_server, pl_failed, pl_effective, pl_cycles,
                   pl_edits, pl_faults>>
    /\ UNCHANGED <<cycleVars, mergeVars, restVars>>

NextPlaylist ==
    \/ \E s \in ServerIds, u \in Users, t \in Titles :
         \E content \in PlaylistContents \cup {<<>>} : PlaylistEdit(s, u, t, content)
    \/ PlaylistLoad
    \/ PlaylistGather
    \/ PlaylistGatherFail
    \/ PlaylistSynchronize
    \/ \E keeps_duplicates \in BOOLEAN : PlaylistExecute(keeps_duplicates)
    \/ PlaylistExecuteFail
    \/ PlaylistSave

\* The playlist synchronisation on its own, with DRYRUN unset.  When it is
\* first run there is no playlist state file, and every server holds for a
\* user the playlists the user made there.
InitPlaylist ==
    /\ WatchedAtRest
    /\ dryrun = FALSE
    /\ MergeAtRest
    /\ RestAtRest
    /\ playlists \in [ServerIds -> [Users -> {EmptyDict} \cup
                         {[t \in Titles |-> content] : content \in PlaylistContents}]]
    /\ playlist_saved = EmptyDict
    /\ playlist_state = EmptyDict
    /\ server_data = EmptyDict
    /\ new_state = EmptyDict
    /\ actions = EmptyDict
    /\ trashed_registry = EmptyDict
    /\ pl_pc = "idle"
    /\ next_server = 1
    /\ pl_failed = FALSE
    /\ pl_effective = TRUE
    /\ pl_last = NoPlaylistCycle
    /\ pl_cycles = 0
    /\ pl_edits = 0
    /\ pl_faults = 0

SpecPlaylist == InitPlaylist /\ [][NextPlaylist]_vars

(***************************************************************************)
(* main_loop with DRYRUN set.  The watched synchronisation and the         *)
(* playlist synchronisation share neither a state file nor anything they   *)
(* read from or write to a server, so a run is followed through one of     *)
(* them while the other stays at rest.                                     *)
(***************************************************************************)
InitDryrun == AtRest /\ dryrun = TRUE

NextDryrun ==
    \/ (pl_cycles = 0 /\ pl_edits = 0 /\ Next)
    \/ (cycles = 0 /\ user_actions = 0 /\ NextPlaylist)

SpecDryrun == InitDryrun /\ [][NextDryrun]_vars

(***************************************************************************)
(* main(): the start-up, the loop around main_loop and the exit, with the  *)
(* two state files main_loop loads and saves.  A cycle is followed by its  *)
(* loads, its saves and whether it raised; what it reconciles is the       *)
(* subject of the other specifications.  SLEEP_DURATION holds a number     *)
(* that sleep() accepts, and no KeyboardInterrupt arrives.                 *)
(***************************************************************************)

\* The largest number of comma-separated entries of a credential variable.
MaxEntries == 2

\* What a state file holds: nothing at all (no file, or a file of size 0),
\* bytes that are not UTF-8, text that is not JSON, JSON that is not a state
\* (a list, a wrong field type), or a state.
FileKinds == {"absent", "empty", "not_utf8", "bad_json", "bad_schema", "valid"}

\* The levels configure_logger accepts.
LogLevels == {"INFO", "DEBUG", "TRACE"}

\* DEBUG_LEVEL settings, upper-cased.
DebugLevels == {"INFO", "WARNING"}

\* SYNC_CRON: unset, an expression croniter accepts, one it rejects.
CronSettings == {"none", "valid", "invalid"}

\* Entry counts of PLEX_USERNAME, PLEX_PASSWORD and PLEX_SERVERNAME (0: unset).
AccountEntries ==
    {<<0, 0, 0>>, <<1, 1, 1>>, <<1, 1, 0>>, <<MaxEntries, 1, MaxEntries>>,
     <<1, MaxEntries, 1>>}

Environments ==
    {[run_only_once |-> once, sync_cron |-> cron, level |-> level,
      baseurl |-> b, token |-> t,
      username |-> a[1], password |-> a[2], servername |-> a[3]] :
        once \in BOOLEAN, cron \in CronSettings, level \in DebugLevels,
        b \in 0..MaxEntries, t \in 0..MaxEntries, a \in AccountEntries}

\* open(..., encoding="utf-8"), json.load(f) and the model constructor on a
\* file that exists and is not empty: the exception raised, or "state".
ReadState(kind) ==
    CASE kind = "not_utf8" -> "UnicodeDecodeError"
      [] kind = "bad_json" -> "JSONDecodeError"
      [] kind = "bad_schema" -> "ValidationError"
      [] OTHER -> "state"

\* What a load did: the file it found, whether a copy could be written, what
\* it returned, whether it wrote the copy, whether it raised.
LoadResult(kind, copy_ok, returned, backup) ==
    [kind |-> kind, copy_ok |-> copy_ok, returned |-> returned, backup |-> backup,
     raised |-> FALSE]

\* load_watched_state on a file of the kind; copy_ok is whether shutil.copy2
\* can write the ".corrupted" copy.
load_watched_state(kind, copy_ok) ==
    IF kind = "absent" THEN LoadResult(kind, copy_ok, "empty", FALSE)
    ELSE IF kind = "empty" THEN LoadResult(kind, copy_ok, "empty", FALSE)
    ELSE LET read == ReadState(kind)
         IN  IF read = "state" THEN LoadResult(kind, copy_ok, "stored", FALSE)
             ELSE IF read = "JSONDecodeError" THEN LoadResult(kind, copy_ok, "empty", copy_ok)
             ELSE LoadResult(kind, copy_ok, "empty", FALSE)

\* load_state of the playlist state, on a file of the kind.
load_state(kind, copy_ok) ==
    IF kind = "absent" THEN LoadResult(kind, copy_ok, "empty", FALSE)
    ELSE IF kind = "empty" THEN LoadResult(kind, copy_ok, "empty", FALSE)
    ELSE LET read == ReadState(kind)
         IN  IF read = "state" THEN LoadResult(kind, copy_ok, "stored", FALSE)
             ELSE IF read = "JSONDecodeError" THEN LoadResult(kind, copy_ok, "empty", copy_ok)
             ELSE LoadResult(kind, copy_ok, "empty", FALSE)

\* generate_server_connections under the environment; reachable is whether
\* the Plex constructor can log in to the servers.  The result is whether it
\* raised and, if not, the number of servers it returns.
generate_server_connections(e, reachable) ==
    LET by_token == e.baseurl > 0 /\ e.token > 0
        token_servers == IF by_token THEN e.baseurl ELSE 0
        by_account == /\ e.username > 0 /\ e.password > 0 /\ e.servername > 0
                      /\ token_servers = 0
        Raised == [raised |-> TRUE, servers |-> 0]
    IN  IF by_token /\ e.baseurl # e.token THEN Raised
        ELSE IF by_token /\ ~reachable THEN Raised
        ELSE IF by_account /\ (e.username # e.password \/ e.username # e.servername)
        THEN Raised
        ELSE IF by_account /\ ~reachable THEN Raised
        ELSE [raised |-> FALSE,
              servers |-> IF by_token THEN token_servers
                          ELSE IF by_account THEN e.username ELSE 0]

\* An except clause that leaves the loop whatever the mode.
CaughtNext_Exits(run_only_once) == "finally"

\* Where the except clause of the loop goes.
CaughtNext(run_only_once) == IF run_only_once THEN "finally" ELSE "sleep"

\* The duration the loop sleeps for after a cycle that returned.
wait_seconds(sync_cron) == IF sync_cron = "valid" THEN "cron" ELSE "sleep_duration"

\* Environments with one server given by URL and token, a level
\* configure_logger accepts and no cron expression.
PlainEnvironments ==
    {e \in Environments :
        /\ e.level = "INFO" /\ e.sync_cron = "none"
        /\ e.baseurl = 1 /\ e.token = 1
        /\ e.username = 0 /\ e.password = 0 /\ e.servername = 0}

\* main() is started under any of the environments, with no state file yet.
InitMain ==
    /\ WatchedAtRest
    /\ dryrun = FALSE
    /\ MergeAtRest
    /\ PlaylistAtRest
    /\ MatchAtRest
    /\ env \in Environments
    /\ files = [f \in StateFiles |-> "absent"]
    /\ corrupted = {}
    /\ loads = [f \in StateFiles |-> NoLoad]
    /\ main_pc = "start"
    /\ connected = 0
    /\ waited = "none"
    /\ exit_code = Running
    /\ cycle_run = FALSE
    /\ error_caught = FALSE

notMainVars == <<cycleVars, mergeVars, playlistVars, matchVars>>

\* configure_logger(); what it raises is swallowed by logger.catch and main()
\* returns.
ConfigureLogger ==
    /\ main_pc = "start"
    /\ main_pc' = IF env.level \in LogLevels THEN "connect" ELSE "returned"
    /\ UNCHANGED <<env, files, corrupted, loads, connected, waited, exit_code,
                   cycle_run, error_caught>>
    /\ UNCHANGED notMainVars

\* servers = generate_server_connections(), and the return when it raised.
Connect(reachable) ==
    /\ main_pc = "connect"
    /\ LET r == generate_server_connections(env, reachable)
       IN  /\ main_pc' = IF r.raised THEN "returned" ELSE "loop"
           /\ connected' = r.servers
    /\ UNCHANGED <<env, files, corrupted, loads, waited, exit_code, cycle_run,
                   error_caught>>
    /\ UNCHANGED notMainVars

\* The loop calls main_loop(servers).
CallMainLoop ==
    /\ main_pc = "loop"
    /\ main_pc' = "watched"
    /\ cycle_run' = TRUE
    /\ UNCHANGED <<env, files, corrupted, loads, connected, waited, exit_code,
                   error_caught>>
    /\ UNCHANGED notMainVars

\* main_loop up to the end of synchronize_watched: it raises before the state
\* is loaded (a mapping that is not JSON), or loads the state and then
\* raises, or returns having saved the state or having failed to save it.
SynchronizeWatched(outcome, copy_ok) ==
    /\ main_pc = "watched"
    /\ IF outcome = "raises_early"
       THEN /\ main_pc' = "caught"
            /\ error_caught' = TRUE
            /\ UNCHANGED <<files, corrupted, loads>>
       ELSE LET l == load_watched_state(files["watched"], copy_ok)
            IN  /\ loads' = [loads EXCEPT !["watched"] = l]
                /\ corrupted' = IF l.backup THEN corrupted \cup {"watched"}
                                ELSE corrupted
                /\ files' = IF outcome = "saved"
                            THEN [files EXCEPT !["watched"] = "valid"]
                            ELSE files
                /\ main_pc' = IF outcome = "raises" THEN "caught" ELSE "playlists"
                /\ error_caught' = (error_caught \/ outcome = "raises")
    /\ UNCHANGED <<env, connected, waited, exit_code, cycle_run>>
    /\ UNCHANGED notMainVars

\* The playlist part of main_loop: skipped (SYNC_PLAYLISTS off), or the state
\* is loaded and then saved, or an exception caught inside or a failed write
\* leaves the file as it was.
SynchronizePlaylists(outcome, copy_ok) ==
    /\ main_pc = "playlists"
    /\ IF outcome = "skipped"
       THEN UNCHANGED <<files, corrupted, loads>>
       ELSE LET l == load_state(files["playlist"], copy_ok)
            IN  /\ loads' = [loads EXCEPT !["playlist"] = l]
                /\ corrupted' = IF l.backup THEN corrupted \cup {"playlist"}
                                ELSE corrupted
                /\ files' = IF outcome = "saved"
                            THEN [files EXCEPT !["playlist"] = "valid"]
                            ELSE files
    /\ main_pc' = "done"
    /\ UNCHANGED <<env, connected, waited, exit_code, cycle_run, error_caught>>
    /\ UNCHANGED notMainVars

\* main_loop returned: break with run_only_once, else work out the wait (an
\* expression croniter rejects is logged and SLEEP_DURATION is used).
AfterCycle ==
    /\ main_pc = "done"
    /\ IF env.run_only_once
       THEN main_pc' = "finally" /\ UNCHANGED waited
       ELSE main_pc' = "sleep" /\ waited' = wait_seconds(env.sync_cron)
    /\ UNCHANGED <<env, files, corrupted, loads, connected, exit_code, cycle_run,
                   error_caught>>
    /\ UNCHANGED notMainVars

\* The except clause of the loop: log, then break with run_only_once, else
\* sleep for SLEEP_DURATION.
AfterError ==
    /\ main_pc = "caught"
    /\ main_pc' = CaughtNext(env.run_only_once)
    /\ waited' = IF env.run_only_once THEN waited ELSE "sleep_duration"
    /\ UNCHANGED <<env, files, corrupted, loads, connected, exit_code, cycle_run,
                   error_caught>>
    /\ UNCHANGED notMainVars

\* sleep() returns and the loop goes round.
Sleep ==
    /\ main_pc = "sleep"
    /\ main_pc' = "loop"
    /\ UNCHANGED <<env, files, corrupted, loads, connected, waited, exit_code,
                   cycle_run, error_caught>>
    /\ UNCHANGED notMainVars

\* The finally clause: the servers are closed and os._exit(0) ends the process.
CloseAndExit ==
    /\ main_pc = "finally"
    /\ main_pc' = "exited"
    /\ connected' = 0
    /\ exit_code' = <<0>>
    /\ UNCHANGED <<env, files, corrupted, loads, waited, cycle_run, error_caught>>
    /\ UNCHANGED notMainVars

\* main() returned before its loop, to the script that called it: the process
\* ends with the exit code of an unrecoverable configuration error.
ReturnToCaller ==
    /\ main_pc = "returned"
    /\ main_pc' = "exited"
    /\ exit_code' = <<1>>
    /\ UNCHANGED <<env, files, corrupted, loads, connected, waited, cycle_run,
                   error_caught>>
    /\ UNCHANGED notMainVars

NextMain ==
    \/ ConfigureLogger
    \/ \E reachable \in BOOLEAN : Connect(reachable)
    \/ CallMainLoop
    \/ \E outcome \in {"raises_early", "raises", "saved", "not_saved"} :
          \E copy_ok \in BOOLEAN : SynchronizeWatched(outcome, copy_ok)
    \/ \E outcome \in {"skipped", "saved", "not_saved"} :
          \E copy_ok \in BOOLEAN : SynchronizePlaylists(outcome, copy_ok)
    \/ AfterCycle
    \/ AfterError
    \/ Sleep
    \/ CloseAndExit
    \/ ReturnToCaller

SpecMain == InitMain /\ [][NextMain]_vars

\* main() is started under a plain environment, with state files of any kind.
InitLoad ==
    /\ WatchedAtRest
    /\ dryrun = FALSE
    /\ MergeAtRest
    /\ PlaylistAtRest
    /\ MatchAtRest
    /\ env \in PlainEnvironments
    /\ files \in [StateFiles -> FileKinds]
    /\ corrupted = {}
    /\ loads = [f \in StateFiles |-> NoLoad]
    /\ main_pc = "start"
    /\ connected = 0
    /\ waited = "none"
    /\ exit_code = Running
    /\ cycle_run = FALSE
    /\ error_caught = FALSE

SpecLoad == InitLoad /\ [][NextMain]_vars

\* Every step of main() is a step of the one process: a call that returns, a
\* sleep that ends.  A process that is not stopped takes its next step.
FairSpecMain == SpecMain /\ WF_vars(NextMain)

(***************************************************************************)
(* One cycle up to the end of its merge, started over servers that differ  *)
(* in the users and libraries they have and with a state file left by      *)
(* earlier cycles: a server has no user, or a user with no library, or     *)
(* either library or both, with any of their media watched.                *)
(***************************************************************************)
\* A video watched to the end at the first tick.
WatchedVideo == [isWatched |-> TRUE, viewOffset |-> 0, lastViewedAt |-> <<Tick>>]

\* What a server can hold: user -> library -> medium -> video.
ServerWorlds ==
    {EmptyDict}
      \cup UNION {[Users -> [libs -> {EmptyDict}]] \cup
                  {[u \in Users |-> lw] :
                      lw \in {f \in [libs -> UNION {[MediaOf(l) -> {Unwatched, WatchedVideo}] :
                                                       l \in libs}] :
                                 \A l \in libs : DOMAIN f[l] = MediaOf(l)}} :
                  libs \in SUBSET Libraries}

\* An item of the state file: watched at the first tick and stamped for
\* every server.
SavedItem(m) ==
    LET status == WatchedStatus(TRUE, 0, <<Tick>>)
    IN  [MediaItem(extract_identifiers_from_item(servers[1], m), status)
            EXCEPT !.synced_to_servers =
                      [s \in ServerIds |-> ServerSyncInfo(Tick, status)]]

\* The state files: none, or one user with a movie library holding M1 or
\* nothing and a show library holding S1 with some of its episodes or no
\* series.
SavedStates ==
    {EmptyDict} \cup
    {[u \in Users |->
        [l \in Libraries |->
            IF LibraryType(l) = "movie"
            THEN LibraryData(l, movies, <<>>)
            ELSE LibraryData(l, <<>>,
                     IF episodes = <<>> THEN <<>>
                     ELSE <<Series(extract_identifiers_from_item(servers[1], "S1"),
                                   episodes)>>)]] :
        movies \in {<<>>, <<SavedItem("M1")>>},
        episodes \in {<<>>, <<SavedItem("E1")>>, <<SavedItem("E2")>>,
                      <<SavedItem("E1"), SavedItem("E2")>>}}

InitPrune ==
    /\ world \in [ServerIds -> ServerWorlds]
    /\ now = Tick
    /\ saved \in SavedStates
    /\ state = EmptyDict
    /\ pc = "idle"
    /\ server_watched_data = EmptyDict
    /\ order = <<>>
    /\ tombstones = {}
    /\ dryrun = FALSE
    /\ processed = {}
    /\ loaded = EmptyDict
    /\ prune_log = {}
    /\ payloads = EmptyDict
    /\ fetch_failed = {}
    /\ push_failed = {}
    /\ aborted = <<>>
    /\ effective = TRUE
    /\ last = NoCycle
    /\ cycles = 0
    /\ user_actions = 0
    /\ faults = 0
    /\ MergeAtRest
    /\ PlaylistAtRest
    /\ RestAtRest

NextPrune ==
    \/ StartCycle
    \/ \E s \in ServerIds : FetchServer(s)
    \/ \E s \in ServerIds : FetchFail(s)
    \/ PruneStage
    \/ MergeStage

SpecPrune == InitPrune /\ [][NextPrune]_vars

(***************************************************************************)
(* One whole cycle started with a state file whose ledgers hold any status *)
(* for any server: the inputs of create_diff_library.                      *)
(***************************************************************************)
\* A movie left part-way at the first tick.
PartWayVideo(time) == [isWatched |-> FALSE, viewOffset |-> time, lastViewedAt |-> <<Tick>>]

\* The ledgers of an item: for each server no entry or an entry holding one
\* of the statuses.
Ledgers(statuses) ==
    UNION {[ids -> {ServerSyncInfo(Tick, st) : st \in statuses}] : ids \in SUBSET ServerIds}

DiffMovieStatuses ==
    {WatchedStatus(TRUE, 0, <<Tick>>), WatchedStatus(FALSE, 300000, <<Tick>>)}

DiffMovieLedgerStatuses ==
    DiffMovieStatuses \cup {WatchedStatus(FALSE, 200000, <<Tick>>)}

DiffEpisodeLedgerStatuses ==
    {WatchedStatus(TRUE, 0, <<Tick>>), WatchedStatus(FALSE, 0, NoTime)}

\* The state files: one user holding M1 and the episode E1 of S1.
DiffStates ==
    {[u \in Users |->
        [l \in Libraries |->
            IF LibraryType(l) = "movie"
            THEN LibraryData(l,
                     <<[MediaItem(extract_identifiers_from_item(servers[1], "M1"), status)
                           EXCEPT !.synced_to_servers = movie_ledger]>>, <<>>)
            ELSE LibraryData(l, <<>>,
                     <<Series(extract_identifiers_from_item(servers[1], "S1"),
                              <<[MediaItem(extract_identifiers_from_item(servers[1], "E1"),
                                           WatchedStatus(TRUE, 0, <<Tick>>))
                                    EXCEPT !.synced_to_servers = episode_ledger]>>)>>)]] :
        status \in DiffMovieStatuses,
        movie_ledger \in Ledgers(DiffMovieLedgerStatuses),
        episode_ledger \in Ledgers(DiffEpisodeLedgerStatuses)}

\* The servers: every server has the user and both libraries, M1 watched or
\* left part-way, E1 watched.
DiffWorlds ==
    [ServerIds ->
        {[u \in Users |->
            [l \in Libraries |->
                [m \in MediaOf(l) |->
                    IF m = "M1" THEN video ELSE IF m = "E1" THEN WatchedVideo
                    ELSE Unwatched]]] :
         video \in {WatchedVideo, PartWayVideo(200000)}}]

InitDiff ==
    /\ world \in DiffWorlds
    /\ now = Tick
    /\ saved \in DiffStates
    /\ state = EmptyDict
    /\ pc = "idle"
    /\ server_watched_data = EmptyDict
    /\ order = <<>>
    /\ tombstones = {}
    /\ dryrun = FALSE
    /\ processed = {}
    /\ loaded = EmptyDict
    /\ prune_log = {}
    /\ payloads = EmptyDict
    /\ fetch_failed = {}
    /\ push_failed = {}
    /\ aborted = <<>>
    /\ effective = TRUE
    /\ last = NoCycle
    /\ cycles = MaxCycles - 1
    /\ user_actions = 0
    /\ faults = 0
    /\ MergeAtRest
    /\ PlaylistAtRest
    /\ RestAtRest

NextDiff ==
    \/ NextPrune
    \/ MarkStage
    \/ \E s \in ServerIds : Push(s)
    \/ \E s \in ServerIds : PushFail(s)
    \/ EndCycle

SpecDiff == InitDiff /\ [][NextDiff]_vars

\* The push executor runs every future submitted to it and the loop over
\* as_completed collects every future: a push that has not run is eventually
\* run, and the stage is eventually left.
FairSpecDiff ==
    SpecDiff /\ WF_vars(EndCycle) /\ \A s \in ServerIds : WF_vars(Push(s))

(***************************************************************************)
(* Vocabulary of the properties.                                           *)
(***************************************************************************)
\* Every process_server_sync of the cycle is over: the payloads of the
\* cycle are all known and the state is the one the final save writes.
PushesOver == processed = ServerIds /\ aborted = <<>>

\* The item is the medium m of the catalogue.
IsMedium(identifiers, m) ==
    \E s \in ServerIds :
        check_same_identifiers(identifiers, extract_identifiers_from_item(s, m))

\* The movies and episodes a watched state holds for a user's library.
StateItems(g_state, u, l) ==
    IF u \in DOMAIN g_state /\ l \in DOMAIN g_state[u]
    THEN ItemsOf(g_state[u][l]) ELSE <<>>

\* The items of g_state that are the medium m.
StateCopies(g_state, u, l, m) ==
    LET items == StateItems(g_state, u, l)
    IN  {items[i] : i \in {j \in 1..Len(items) : IsMedium(items[j].identifiers, m)}}

\* The copies of m in the snapshot of server s.
SnapshotCopies(s, u, l, m) ==
    IF s \in DOMAIN server_watched_data
    THEN StateCopies(server_watched_data[s], u, l, m) ELSE {}

\* The server was fetched and its snapshot has the user and the library.
HasLibrary(s, u, l) ==
    /\ s \in DOMAIN server_watched_data
    /\ u \in DOMAIN server_watched_data[s]
    /\ l \in DOMAIN server_watched_data[s][u]

\* The copies of m in the additions and in the removals computed for s.
Additions(s, u, l, m) ==
    IF s \in DOMAIN payloads THEN StateCopies(payloads[s].update, u, l, m) ELSE {}

Removals(s, u, l, m) ==
    IF s \in DOMAIN payloads THEN StateCopies(payloads[s].remove, u, l, m) ELSE {}

AllMedia == UNION {{[library |-> l, medium |-> m] : m \in MediaOf(l)} : l \in Libraries}

HoldsMatch(g_state, p) ==
    /\ p.user \in DOMAIN g_state
    /\ p.library \in DOMAIN g_state[p.user]
    /\ LET lib == g_state[p.user][p.library]
       IN  IF p.kind = "Series"
           THEN AnyInSeq(lib.series,
                    LAMBDA ser : check_same_identifiers(ser.identifiers, p.identifiers))
           ELSE AnyInSeq(ItemsOf(lib),
                    LAMBDA it : check_same_identifiers(it.identifiers, p.identifiers))

C2_TombstoneHonor ==
    pc = "mark" => \A p \in prune_log : ~HoldsMatch(state, p)

\* The merge is over and a snapshot still reports something that was pruned.
C2_Witness ==
    /\ pc = "mark"
    /\ \E p \in prune_log : \E s \in DOMAIN server_watched_data :
          HoldsMatch(server_watched_data[s], p)

(***************************************************************************)
(* C3. A failed fetch cannot prune.  As stated: every item the prune stage *)
(* removed is missing from the snapshot of a server that was fetched and   *)
(* has the item's user and library.                                        *)
(***************************************************************************)
MissingFromFetched(p) ==
    \E s \in DOMAIN server_watched_data :
        LET s_lib == SnapshotLibrary(server_watched_data, s, p.user, p.library)
        IN  /\ s_lib # <<>>
            /\ ~HoldsMatch([u \in {p.user} |-> [l \in {p.library} |-> s_lib[1]]], p)

C3_PrunedIsMissing ==
    pc = "merge" => \A p \in prune_log : MissingFromFetched(p)

\* C3 amended: a pruned movie or episode is missing from such a snapshot; a
\* pruned series is missing from such a snapshot or has lost every episode
\* the loaded state held for it, each missing from such a snapshot.
C3_PrunedIsMissingAmended ==
    pc = "merge" =>
        \A p \in prune_log :
            \/ MissingFromFetched(p)
            \/ /\ p.kind = "Series"
               /\ \A i \in 1..Len(loaded[p.user][p.library].series) :
                     LET ser == loaded[p.user][p.library].series[i]
                     IN  check_same_identifiers(ser.identifiers, p.identifiers)
                            => \A j \in 1..Len(ser.episodes) :
                                  MissingFromFetched(
                                      [user |-> p.user, library |-> p.library,
                                       kind |-> "MediaItem",
                                       identifiers |-> ser.episodes[j].identifiers])

\* The prune ran while a server whose fetch failed no longer lists an item
\* of the loaded state, and the item was kept.
C3_Witness ==
    /\ pc = "merge"
    /\ \E s \in fetch_failed : \E x \in AllMedia : \E u \in Users :
          /\ StateCopies(loaded, u, x.library, x.medium) # {}
          /\ ~Listed(world[s][u][x.library][x.medium])
          /\ StateCopies(state, u, x.library, x.medium) # {}

(***************************************************************************)
(* C4. Fetch failure isolation: when a step of one server's fetch failed   *)
(* in a cycle (its enumeration or its watched fetch), the cycle has        *)
(* fetched every other configured server and run its push.                 *)
(***************************************************************************)
FailedFetch == fetch_failed \cup {aborted[i] : i \in 1..Len(aborted)}

C4_FetchFailureIsolation ==
    (pc = "idle" /\ cycles > 0 /\ FailedFetch # {})
        => \A s \in ServerIds \ FailedFetch :
              s \in DOMAIN server_watched_data /\ s \in processed

(***************************************************************************)
(* C5. Propagation in one cycle: an item absent from the loaded state,     *)
(* watched on fetched server A and reported by no other server (so that A  *)
(* is the one server on which it is watched, in the narrowest sense), is   *)
(* held as watched by the global state after the cycle, is in the          *)
(* additions of every other fetched server that has the user and the       *)
(* library, and A gets neither an addition nor a removal for it.           *)
(***************************************************************************)
The(S) == CHOOSE x \in S : TRUE

WatchedOn(s, u, l, m) == \E c \in SnapshotCopies(s, u, l, m) : c.status.completed

C5_PropagationInOneCycle ==
    PushesOver =>
        \A u \in Users : \A x \in AllMedia : \A a \in ServerIds :
            (/\ StateCopies(loaded, u, x.library, x.medium) = {}
             /\ WatchedOn(a, u, x.library, x.medium)
             /\ \A s \in ServerIds \ {a} : SnapshotCopies(s, u, x.library, x.medium) = {})
            => /\ \E c \in StateCopies(state, u, x.library, x.medium) : c.status.completed
               /\ \A s \in ServerIds \ {a} :
                     HasLibrary(s, u, x.library)
                        => Additions(s, u, x.library, x.medium) # {}
               /\ Additions(a, u, x.library, x.medium) = {}
               /\ Removals(a, u, x.library, x.medium) = {}

(***************************************************************************)
(* C6. Deletion propagation: when the loaded state holds episode E of      *)
(* series S with ledger entries for A and B, A reports S without E and B   *)
(* reports E watched, then the merge does not re-add E, the global state   *)
(* after the cycle does not hold E, the removals of B hold E and A gets    *)
(* nothing for E.                                                          *)
(***************************************************************************)
Merged == pc \in {"mark", "push"} \/ (pc = "idle" /\ cycles > 0 /\ aborted = <<>>)

ReportsSeries(s, u, l) ==
    HasLibrary(s, u, l) /\ server_watched_data[s][u][l].series # <<>>

DeletedOn(a, b, u, l, e) ==
    /\ \E c \in StateCopies(loaded, u, l, e) : {a, b} \subseteq DOMAIN c.synced_to_servers
    /\ ReportsSeries(a, u, l)
    /\ SnapshotCopies(a, u, l, e) = {}
    /\ WatchedOn(b, u, l, e)

C6_DeletionPropagation ==
    \A u \in Users : \A e \in Episodes : \A a \in ServerIds : \A b \in ServerIds \ {a} :
        (Merged /\ DeletedOn(a, b, u, "TV", e))
            => /\ StateCopies(state, u, "TV", e) = {}
               /\ PushesOver => /\ Removals(b, u, "TV", e) # {}
                                /\ Additions(a, u, "TV", e) = {}
                                /\ Removals(a, u, "TV", e) = {}

\* A cycle has pushed after A dropped an episode both servers had.
C6_Witness ==
    /\ PushesOver
    /\ Merged
    /\ \E u \in Users : \E e \in Episodes : DeletedOn("A", "B", u, "TV", e)

(***************************************************************************)
(* C7. Progress merge: M is not in the loaded state, A reports it not      *)
(* completed at 300000 viewed at 1000 and B not completed at 200000        *)
(* viewed at 2000; after the cycle the global item has B's status, A's     *)
(* additions hold M at 200000 and B gets nothing, whichever snapshot was   *)
(* merged first.                                                           *)
(***************************************************************************)
ReportsProgress(s, u, l, m, time, viewed) ==
    /\ SnapshotCopies(s, u, l, m) # {}
    /\ \A c \in SnapshotCopies(s, u, l, m) :
          c.status = WatchedStatus(FALSE, time, <<viewed>>)

C7_ProgressMerge ==
    \A u \in Users :
        (/\ PushesOver
         /\ StateCopies(loaded, u, "Movies", "M1") = {}
         /\ ReportsProgress("A", u, "Movies", "M1", 300000, 1000)
         /\ ReportsProgress("B", u, "Movies", "M1", 200000, 2000))
        => /\ \A c \in StateCopies(state, u, "Movies", "M1") :
                 c.status = WatchedStatus(FALSE, 200000, <<2000>>)
           /\ \E c \in Additions("A", u, "Movies", "M1") : c.status.time = 200000
           /\ Additions("B", u, "Movies", "M1") = {}
           /\ Removals("B", u, "Movies", "M1") = {}

(***************************************************************************)
(* C8. Unmark precedence: the loaded state holds M completed with ledger   *)
(* entries recording completed for A and B, A reports M not completed and  *)
(* B reports it completed; after the cycle the global M is not completed   *)
(* and B was told to unmark M.                                             *)
(***************************************************************************)
C8_UnmarkPrecedence ==
    \A u \in Users :
        (/\ PushesOver
         /\ \E c \in StateCopies(loaded, u, "Movies", "M1") :
               /\ c.status.completed
               /\ {"A", "B"} \subseteq DOMAIN c.synced_to_servers
               /\ \A s \in {"A", "B"} : c.synced_to_servers[s].synced_status.completed
         /\ SnapshotCopies("A", u, "Movies", "M1") # {}
         /\ \A c \in SnapshotCopies("A", u, "Movies", "M1") : ~c.status.completed
         /\ WatchedOn("B", u, "Movies", "M1"))
        => /\ \A c \in StateCopies(state, u, "Movies", "M1") : ~c.status.completed
           /\ \/ \E c \in Additions("B", u, "Movies", "M1") : ~c.status.completed
              \/ Removals("B", u, "Movies", "M1") # {}

(***************************************************************************)
(* C10. Ledger soundness: at the end of a cycle whose pushes all           *)
(* succeeded, a ledger entry for server S on global item I records the     *)
(* status pushed to S for I in the cycle or, when nothing was pushed to S  *)
(* for I, a status identical (same completed flag, progress within the     *)
(* threshold) to the one S reported for I.                                 *)
(***************************************************************************)
SameIn(items, item) == {items[i] : i \in {j \in 1..Len(items) : SameItem(items[j], item)}}

LedgerSound(u, l, item, s) ==
    LET entry == item.synced_to_servers[s]
        pushed == IF s \in DOMAIN payloads
                  THEN SameIn(StateItems(payloads[s].update, u, l), item) ELSE {}
        reported == IF s \in DOMAIN server_watched_data
                    THEN SameIn(StateItems(server_watched_data[s], u, l), item) ELSE {}
    IN  IF pushed # {} THEN \E c \in pushed : entry.synced_status = c.status
        ELSE reported # {}
                => \E c \in reported : IdenticalStatus(c.status, entry.synced_status)

C10_LedgerSoundness ==
    (PushesOver /\ push_failed = {} /\ pc \in {"push", "idle"})
        => \A u \in Users : \A l \in Libraries :
              LET items == StateItems(state, u, l)
              IN  \A i \in 1..Len(items) : \A s \in DOMAIN items[i].synced_to_servers :
                     LedgerSound(u, l, items[i], s)

\* C10 as stated: the entry is equal to the pushed status or, when nothing
\* was pushed, equal to the status the server reported.
PushedTo(s, u, l, item) ==
    IF s \in DOMAIN payloads
    THEN SameIn(StateItems(payloads[s].update, u, l), item) ELSE {}

ReportedBy(s, u, l, item) ==
    IF s \in DOMAIN server_watched_data
    THEN SameIn(StateItems(server_watched_data[s], u, l), item) ELSE {}

LedgerEqual(u, l, item, s) ==
    LET entry == item.synced_to_servers[s]
    IN  IF PushedTo(s, u, l, item) # {}
        THEN \E c \in PushedTo(s, u, l, item) : entry.synced_status = c.status
        ELSE ReportedBy(s, u, l, item) # {}
                => \E c \in ReportedBy(s, u, l, item) : entry.synced_status = c.status

C10_LedgerEqualsPushedOrReported ==
    (PushesOver /\ push_failed = {} /\ pc \in {"push", "idle"})
        => \A u \in Users : \A l \in Libraries :
              LET items == StateItems(state, u, l)
              IN  \A i \in 1..Len(items) : \A s \in DOMAIN items[i].synced_to_servers :
                     LedgerEqual(u, l, items[i], s)

\* The pushes of a cycle all succeeded and left an item with one ledger
\* entry for a server it was pushed to and one for a server that reported it.
C10_Witness ==
    /\ PushesOver
    /\ push_failed = {}
    /\ pc = "push"
    /\ \E u \in Users : \E l \in Libraries :
          LET items == StateItems(state, u, l)
          IN  \E i \in 1..Len(items) :
                 \E s, t \in DOMAIN items[i].synced_to_servers :
                    /\ PushedTo(s, u, l, items[i]) # {}
                    /\ PushedTo(t, u, l, items[i]) = {}
                    /\ ReportedBy(t, u, l, items[i]) # {}

(***************************************************************************)
(* C9. Merge monotonicity of identifiers: after an incoming item is merged *)
(* into a matching item of the list, whichever side wins, the resulting    *)
(* item still has every external id the existing item had, has the ids the *)
(* existing item lacked filled from the incoming one, and its locations    *)
(* include the locations of both.                                          *)
(***************************************************************************)
\* The list after merge number k of merge_log.
AfterMerge(k) == IF k < Len(merge_log) THEN merge_log[k + 1].before ELSE target_list

IdsMonotone(existing, incoming, result) ==
    /\ \A f \in {"imdb_id", "tvdb_id", "tmdb_id"} :
          /\ Truthy(existing[f]) => result[f] = existing[f]
          /\ (~Truthy(existing[f]) /\ Truthy(incoming[f])) => result[f] = incoming[f]
    /\ existing.locations \cup incoming.locations \subseteq result.locations

C9_MergeKeepsIdentifiers ==
    \A k \in 1..Len(merge_log) :
        LET before == merge_log[k].before
            source_item == merge_log[k].source
            i == FirstIndex(before, LAMBDA t : SameItem(t, source_item))
        IN  i # 0 => IdsMonotone(before[i].identifiers, source_item.identifiers,
                                 AfterMerge(k)[i].identifiers)

(***************************************************************************)
(* C11. Progress threshold: a server is never sent an addition for a       *)
(* not-completed item when the server itself reported the item not         *)
(* completed with a progress less than 60000 ms away from the progress of  *)
(* the global item the cycle ends with.                                    *)
(***************************************************************************)
WithinThreshold(reported, global) ==
    /\ reported.completed = global.completed
    /\ Abs(reported.time - global.time) < ProgressThreshold

C11_ProgressThreshold ==
    PushesOver =>
        \A s \in ServerIds : \A u \in Users : \A x \in AllMedia :
            \A c \in Additions(s, u, x.library, x.medium) :
                ~c.status.completed
                    => \A r \in SnapshotCopies(s, u, x.library, x.medium) :
                          ~WithinThreshold(r.status, c.status)

\* A cycle has pushed while a server reported a progress that is not the
\* global one but within the threshold of it.
C11_Witness ==
    /\ PushesOver
    /\ \E s \in ServerIds : \E u \in Users : \E x \in AllMedia :
          \E r \in SnapshotCopies(s, u, x.library, x.medium) :
             \E g \in StateCopies(state, u, x.library, x.medium) :
                /\ ~g.status.completed
                /\ r.status.time # g.status.time
                /\ WithinThreshold(r.status, g.status)

(***************************************************************************)
(* C12. Unmatchable items are ignored on ingest: an incoming item with no  *)
(* native guid, no external id and no location is not in the list after    *)
(* the merge, and so neither in the additions computed from that list nor  *)
(* in the removals computed against it.                                    *)
(***************************************************************************)
Unmatchable(identifiers) ==
    /\ ~Truthy(identifiers.imdb_id)
    /\ ~Truthy(identifiers.tvdb_id)
    /\ ~Truthy(identifiers.tmdb_id)
    /\ ~GuidTruthy(identifiers.plex_guid)
    /\ identifiers.locations = {}

HoldsUnmatchable(items) == AnyInSeq(items, LAMBDA it : Unmatchable(it.identifiers))

C12_UnmatchableIgnored ==
    \A k \in 1..Len(merge_log) :
        LET source_item == merge_log[k].source
            g_lib_data == LibraryData("Movies", AfterMerge(k), <<>>)
            s_lib_data == LibraryData("Movies", <<source_item>>, <<>>)
            additions == create_diff_library(g_lib_data, "B")
            removals == UnmarkLibrary(g_lib_data, s_lib_data, "Movies")
        IN  (Unmatchable(source_item.identifiers)
                /\ ~HoldsUnmatchable(merge_log[k].before))
            => /\ ~HoldsUnmatchable(AfterMerge(k))
               /\ additions # <<>> => ~HoldsUnmatchable(additions[1].movies)
               /\ removals # <<>> => ~HoldsUnmatchable(removals[1].movies)

(***************************************************************************)
(* C13  Dryrun safety: with DRYRUN set no step of a synchronisation        *)
(* changes what a server holds (no mark watched, update progress, unmark,  *)
(* create playlist, add or remove playlist items, delete playlist): the    *)
(* servers change by the users' own actions only, while the payloads and   *)
(* the playlist actions are still computed.                                *)
(***************************************************************************)
C13_DryrunSafety ==
    [][dryrun => /\ (user_actions' = user_actions => world' = world)
                 /\ (pl_edits' = pl_edits => playlists' = playlists)]_vars

\* A dryrun cycle handed a server a payload of additions that a real run
\* would have applied.
C13_Witness ==
    /\ dryrun
    /\ pc = "push"
    /\ \E s \in processed :
          /\ payloads[s].update # EmptyDict
          /\ update_watched(world[s], s, payloads[s].update, payloads[s].remove,
                            FALSE, now) # world[s]

(***************************************************************************)
(* C14  Dryrun idempotence: with DRYRUN set and the servers unchanged, the *)
(* second of two consecutive cycles that ran to their end without a        *)
(* failure computes empty additions and removals for every server and      *)
(* plans no playlist action.                                               *)
(***************************************************************************)
C14_DryrunIdempotence ==
    dryrun =>
        /\ (pc = "push" /\ PushesOver /\ fetch_failed = {} /\ last.whole)
              => \A s \in ServerIds :
                    /\ payloads[s].update = EmptyDict
                    /\ payloads[s].remove = EmptyDict
        /\ (pl_pc = "execute" /\ pl_last.whole) => ~PlannedActions(actions)

\* The watched half of C14 and its playlist half, each on its own.
C14_WatchedHalf ==
    (dryrun /\ pc = "push" /\ PushesOver /\ fetch_failed = {} /\ last.whole)
        => \A s \in ServerIds :
              /\ payloads[s].update = EmptyDict
              /\ payloads[s].remove = EmptyDict

C14_PlaylistHalf ==
    (dryrun /\ pl_pc = "execute" /\ pl_last.whole) => ~PlannedActions(actions)

(***************************************************************************)
(* C15  Match symmetry: for all identifiers a and b,                       *)
(* check_same_identifiers(a, b) equals check_same_identifiers(b, a).       *)
(***************************************************************************)
C15_MatchSymmetry ==
    match_log # <<>> => match_log[1].forth = match_log[1].back

\* Two identifiers that match by the value of their plex_guid only, the one
\* with a scheme and the other without.
C15_Witness ==
    /\ match_log # <<>>
    /\ match_log[1].forth
    /\ ids1.plex_guid = <<"plex", "M1">>
    /\ ids2.plex_guid = <<"M1">>
    /\ ids1.locations \cap ids2.locations = {}
    /\ ~Truthy(ids1.imdb_id) /\ ~Truthy(ids1.tvdb_id) /\ ~Truthy(ids1.tmdb_id)

\* The media of a list of playlist items, and the actions planned for a user
\* of a server as a set of <<action, title, medium>> (medium "" for none).
MediaIn(items) == {items[i].title : i \in 1..Len(items)}

PlannedFor(s, u) ==
    IF s \in DOMAIN actions /\ u \in DOMAIN actions[s]
    THEN {<<actions[s][u][i].action, actions[s][u][i].playlist_title,
            IF actions[s][u][i].item = <<>> THEN "" ELSE actions[s][u][i].item[1].title>> :
             i \in 1..Len(actions[s][u])}
    ELSE {}

\* synchronize_playlists has returned for: a global "Faves" of X and Y, a
\* server A with the user and no such playlist, a server B with "Faves" of
\* X and Z.
FavesScenario ==
    /\ pl_pc = "execute"
    /\ "u1" \in DOMAIN playlist_state
    /\ "Faves" \in DOMAIN playlist_state["u1"]
    /\ MediaIn(playlist_state["u1"]["Faves"]) = {"X", "Y"}
    /\ "u1" \in DOMAIN server_data["A"]
    /\ "Faves" \notin DOMAIN server_data["A"]["u1"]
    /\ "u1" \in DOMAIN server_data["B"]
    /\ "Faves" \in DOMAIN server_data["B"]["u1"]
    /\ MediaIn(server_data["B"]["u1"]["Faves"]) = {"X", "Z"}

(***************************************************************************)
(* C16  Playlist create plus item removal in one cycle: with the global    *)
(* playlist "Faves" = {X, Y}, server A having the user but no such         *)
(* playlist and server B having "Faves" = {X, Z}, the actions of A are     *)
(* create_playlist("Faves") and add_item for X and Y, those of B are       *)
(* remove_item(Z) and add_item(Y), the global playlist is {X, Y} and Z is  *)
(* in the trashed registry of the cycle.                                   *)
(***************************************************************************)
C16_CreateAndRemove ==
    FavesScenario =>
        /\ PlannedFor("A", "u1") = {<<"create_playlist", "Faves", "">>,
                                    <<"add_item", "Faves", "X">>,
                                    <<"add_item", "Faves", "Y">>}
        /\ PlannedFor("B", "u1") = {<<"remove_item", "Faves", "Z">>,
                                    <<"add_item", "Faves", "Y">>}
        /\ MediaIn(new_state["u1"]["Faves"]) = {"X", "Y"}
        /\ <<"u1", "Faves">> \in DOMAIN trashed_registry
        /\ "Z" \in MediaIn(trashed_registry[<<"u1", "Faves">>])

\* The parts of C16 the code never delivers in the scenario, whatever the
\* ledger of the global items: Z stays out of the global playlist, and B is
\* told to remove it.
C16_ZStaysOut == FavesScenario => "Z" \notin MediaIn(new_state["u1"]["Faves"])

C16_ZRemovedFromB ==
    FavesScenario => <<"remove_item", "Faves", "Z">> \in PlannedFor("B", "u1")

\* What the code does in the scenario: Z is merged into the global playlist
\* and no remove_item is planned for B.
C16_ZEntersGlobal ==
    FavesScenario =>
        /\ "Z" \in MediaIn(new_state["u1"]["Faves"])
        /\ <<"remove_item", "Faves", "Z">> \notin PlannedFor("B", "u1")

\* The scenario of C16 is met.
C16_ScenarioMet == ~FavesScenario

(***************************************************************************)
(* C17  Playlist idempotence: when every action of a playlist cycle was    *)
(* executed without a failure and took effect on its server, and no        *)
(* playlist was edited on a server since, the next playlist cycle plans no *)
(* create_playlist, add_item or remove_item action for any server.         *)
(***************************************************************************)
C17_PlaylistIdempotence ==
    (pl_pc = "execute" /\ pl_last.clean) => ~PlannedActions(actions)

(***************************************************************************)
(* C18. State load: a load of the watched or of the playlist state that    *)
(* found no file or an empty file returned an empty state; a load that     *)
(* found a file json.load cannot parse (bytes that are not UTF-8, text     *)
(* that is not JSON), where the copy could be written, left a              *)
(* ".corrupted" copy and returned an empty state; no load raised.          *)
(***************************************************************************)
FailsToParse(kind) == ReadState(kind) \in {"UnicodeDecodeError", "JSONDecodeError"}

C18_StateLoad ==
    \A f \in StateFiles :
        loads[f] # NoLoad =>
            /\ ~loads[f].raised
            /\ loads[f].kind \in {"absent", "empty"} => loads[f].returned = "empty"
            /\ (FailsToParse(loads[f].kind) /\ loads[f].copy_ok) =>
                   /\ loads[f].returned = "empty"
                   /\ loads[f].backup
                   /\ f \in corrupted

TokenCredentials(e) == e.baseurl > 0 /\ e.token > 0

AccountCredentials(e) == e.username > 0 /\ e.password > 0 /\ e.servername > 0

NoUsableCredentials(e) == ~TokenCredentials(e) /\ ~AccountCredentials(e)

\* The lists the connection is made from differ in length.
UnequalLength(e) ==
    IF TokenCredentials(e) THEN e.baseurl # e.token
    ELSE /\ AccountCredentials(e)
         /\ (e.username # e.password \/ e.username # e.servername)

ConfigurationError(e) ==
    \/ NoUsableCredentials(e)
    \/ UnequalLength(e)
    \/ e.level \notin LogLevels
    \/ e.sync_cron = "invalid"

C20_ConfigurationErrorsFatal ==
    ConfigurationError(env) =>
        /\ ~cycle_run
        /\ exit_code # Running => exit_code # <<0>>

\* The two errors main() does stop for: with lists of unequal length or a
\* rejected log level, main_loop is never called.
C20_RaisedErrorsStopMain ==
    (UnequalLength(env) \/ env.level \notin LogLevels) => ~cycle_run

(***************************************************************************)
(* C21. Stage ordering within a cycle: the prune runs only once every      *)
(* server's fetch has returned or raised, and no fetch completes after it; *)
(* the merge runs only after the prune and the mark stage only after the   *)
(* merge; the Diff & Push of a server runs only after the mark stage has   *)
(* run for all servers, and while servers are pushed no snapshot, no       *)
(* tombstone and no earlier stage's output is written again.               *)
(***************************************************************************)
C21_StageOrdering ==
    [][/\ (pc' = "merge" /\ pc # "merge") =>
              /\ pc = "fetch"
              /\ (DOMAIN server_watched_data) \cup fetch_failed = ServerIds
       /\ pc \in {"merge", "mark", "push"} =>
              /\ server_watched_data' = server_watched_data
              /\ fetch_failed' = fetch_failed
       /\ (pc' = "mark" /\ pc # "mark") => pc = "merge"
       /\ pc \in {"mark", "push"} => tombstones' = tombstones
       /\ (pc' = "push" /\ pc # "push") => pc = "mark" /\ processed = {}
       /\ processed' # processed => (pc' = "fetch" \/ pc = "push")
       /\ pc # "push" => payloads' = payloads \/ pc' = "fetch"]_vars

\* A cycle in which a fetch failed and the prune removed something has
\* pushed a server.
C21_Witness ==
    pc = "push" /\ processed # {} /\ fetch_failed # {} /\ tombstones # {}

RecentChangeUndecided(target_item, source_item) ==
    has_recent_change(target_item) = has_recent_change(source_item)

C23_TimestampPrecedence ==
    \A k \in 1..Len(merge_log) :
        LET before == merge_log[k].before
            source_item == merge_log[k].source
            i == FirstIndex(before, LAMBDA t : SameItem(t, source_item))
        IN  (i # 0 /\ RecentChangeUndecided(before[i], source_item)) =>
              LET ts_target == OrZero(before[i].status.last_viewed_at)
                  ts_source == OrZero(source_item.status.last_viewed_at)
              IN  /\ ts_source > ts_target => AfterMerge(k)[i] = source_item
                  /\ ts_target > ts_source => AfterMerge(k)[i] = before[i]

\* The half of it the code keeps: an incoming item viewed later replaces the
\* matched one.
C23_LaterIncomingWins ==
    \A k \in 1..Len(merge_log) :
        LET before == merge_log[k].before
            source_item == merge_log[k].source
            i == FirstIndex(before, LAMBDA t : SameItem(t, source_item))
        IN  (/\ i # 0
             /\ RecentChangeUndecided(before[i], source_item)
             /\ OrZero(source_item.status.last_viewed_at)
                   > OrZero(before[i].status.last_viewed_at))
                => AfterMerge(k)[i] = source_item

(***************************************************************************)
(* C24. Prune rule for movies: a movie of the loaded global state is       *)
(* removed and tombstoned in a cycle if and only if the snapshot of some   *)
(* fetched server has the movie's user and library and holds no movie      *)
(* matching it; a server without that user or library, and a server whose  *)
(* fetch failed, neither causes nor prevents the prune.                    *)
(***************************************************************************)
\* The snapshot of s has the user and the library and no movie matching g.
MissesMovie(s, u, l, g) ==
    /\ s \in DOMAIN server_watched_data
    /\ u \in DOMAIN server_watched_data[s]
    /\ l \in DOMAIN server_watched_data[s][u]
    /\ ~AnyInSeq(server_watched_data[s][u][l].movies, LAMBDA s_mov : SameItem(g, s_mov))

C24_MoviePruneRule ==
    pc = "merge" =>
        \A u \in DOMAIN loaded : \A l \in DOMAIN loaded[u] :
            \A i \in 1..Len(loaded[u][l].movies) :
                LET g == loaded[u][l].movies[i]
                    kept == AnyInSeq(state[u][l].movies, LAMBDA m : m = g)
                    tombstoned == Tombstone("MediaItem", g.identifiers) \in tombstones
                IN  IF \E s \in ServerIds : MissesMovie(s, u, l, g)
                    THEN ~kept /\ tombstoned
                    ELSE kept /\ ~tombstoned

\* A movie is pruned because one fetched server misses it although another
\* fetched server still reports it.
C24_Witness ==
    /\ pc = "merge"
    /\ \E u \in DOMAIN loaded : \E l \in DOMAIN loaded[u] :
          \E i \in 1..Len(loaded[u][l].movies) : \E s, t \in ServerIds :
              LET g == loaded[u][l].movies[i]
              IN  /\ MissesMovie(s, u, l, g)
                  /\ t \in DOMAIN server_watched_data
                  /\ u \in DOMAIN server_watched_data[t]
                  /\ l \in DOMAIN server_watched_data[t][u]
                  /\ ~MissesMovie(t, u, l, g)
                  /\ ~AnyInSeq(state[u][l].movies, LAMBDA m : m = g)

\* A movie is kept although one server lacks its library and the fetch of
\* the other failed or the other reports it.
C24_KeptWitness ==
    /\ pc = "merge"
    /\ \E u \in DOMAIN loaded : \E l \in DOMAIN loaded[u] :
          \E i \in 1..Len(loaded[u][l].movies) : \E s \in DOMAIN server_watched_data :
              /\ (u \notin DOMAIN server_watched_data[s]
                    \/ l \notin DOMAIN server_watched_data[s][u])
              /\ AnyInSeq(state[u][l].movies, LAMBDA m : m = loaded[u][l].movies[i])

(***************************************************************************)
(* C25. Series prune: a series of the loaded state that is absent from the *)
(* snapshot of some fetched server having its user and library is removed  *)
(* whole and a Series tombstone is recorded; otherwise each of its         *)
(* episodes missing on such a server is removed and tombstoned on its own  *)
(* and the other episodes are kept; a series left with no episodes is      *)
(* removed; and after the merge of the same cycle the state holds no       *)
(* series matching a Series tombstone, whatever a lagging server reports.  *)
(***************************************************************************)
SameSeries(ser1, ser2) == check_same_identifiers(ser1.identifiers, ser2.identifiers)

\* The snapshot of s has the user and the library and no series matching g_ser.
MissesSeries(s, u, l, g_ser) ==
    /\ HasLibrary(s, u, l)
    /\ ~AnyInSeq(server_watched_data[s][u][l].series, LAMBDA s_s : SameSeries(g_ser, s_s))

\* The snapshot of s has the user and the library and a series matching
\* g_ser, the first of which has no episode matching g_ep.
MissesEpisode(s, u, l, g_ser, g_ep) ==
    /\ HasLibrary(s, u, l)
    /\ LET k == FirstIndex(server_watched_data[s][u][l].series,
                           LAMBDA s_s : SameSeries(g_ser, s_s))
       IN  /\ k # 0
           /\ ~AnyInSeq(server_watched_data[s][u][l].series[k].episodes,
                        LAMBDA s_ep : SameItem(g_ep, s_ep))

\* The episodes the state holds under the series with the identifiers of g_ser.
EpisodesLeft(u, l, g_ser) ==
    UNION {{state[u][l].series[k].episodes[e] :
                  e \in 1..Len(state[u][l].series[k].episodes)} :
              k \in {j \in 1..Len(state[u][l].series) :
                        state[u][l].series[j].identifiers = g_ser.identifiers}}

C25_SeriesPrune ==
    /\ pc = "merge" =>
          \A u \in DOMAIN loaded : \A l \in DOMAIN loaded[u] :
              \A i \in 1..Len(loaded[u][l].series) :
                  LET g_ser == loaded[u][l].series[i]
                      held == AnyInSeq(state[u][l].series,
                                       LAMBDA ser : ser.identifiers = g_ser.identifiers)
                  IN  /\ IF \E s \in ServerIds : MissesSeries(s, u, l, g_ser)
                         THEN /\ ~held
                              /\ Tombstone("Series", g_ser.identifiers) \in tombstones
                         ELSE \A j \in 1..Len(g_ser.episodes) :
                                 LET g_ep == g_ser.episodes[j]
                                 IN  IF \E s \in ServerIds :
                                            MissesEpisode(s, u, l, g_ser, g_ep)
                                     THEN /\ g_ep \notin EpisodesLeft(u, l, g_ser)
                                          /\ Tombstone("MediaItem", g_ep.identifiers)
                                                \in tombstones
                                     ELSE /\ g_ep \in EpisodesLeft(u, l, g_ser)
                                          /\ Tombstone("MediaItem", g_ep.identifiers)
                                                \notin tombstones
                      /\ (held /\ \E s \in ServerIds : HasLibrary(s, u, l))
                            => EpisodesLeft(u, l, g_ser) # {}
    /\ pc = "mark" =>
          \A u \in DOMAIN state : \A l \in DOMAIN state[u] :
              \A i \in 1..Len(state[u][l].series) :
                  \A t \in tombstones :
                      t.kind = "Series" =>
                          ~check_same_identifiers(state[u][l].series[i].identifiers,
                                                  t.identifiers)

\* The merge is over, a series was removed whole because one fetched server
\* no longer reports it, and the other fetched server still reports it with
\* an episode.
C25_Witness ==
    /\ pc = "mark"
    /\ \E u \in DOMAIN loaded : \E l \in DOMAIN loaded[u] :
          \E i \in 1..Len(loaded[u][l].series) : \E s, t \in ServerIds :
              LET g_ser == loaded[u][l].series[i]
              IN  /\ MissesSeries(s, u, l, g_ser)
                  /\ HasLibrary(t, u, l)
                  /\ \E k \in 1..Len(server_watched_data[t][u][l].series) :
                        /\ SameSeries(g_ser, server_watched_data[t][u][l].series[k])
                        /\ server_watched_data[t][u][l].series[k].episodes # <<>>
                  /\ Tombstone("Series", g_ser.identifiers) \in tombstones

\* The prune is over and a series lost one episode, missing on a fetched
\* server, and kept another.
C25_EpisodeWitness ==
    /\ pc = "merge"
    /\ \E u \in DOMAIN loaded : \E l \in DOMAIN loaded[u] :
          \E i \in 1..Len(loaded[u][l].series) :
              LET g_ser == loaded[u][l].series[i]
              IN  /\ \E j \in 1..Len(g_ser.episodes) :
                        /\ \E s \in ServerIds :
                              MissesEpisode(s, u, l, g_ser, g_ser.episodes[j])
                        /\ g_ser.episodes[j] \notin EpisodesLeft(u, l, g_ser)
                  /\ EpisodesLeft(u, l, g_ser) # {}

(***************************************************************************)
(* C26. Mark-Already-Synced: for every fetched server S and every item of  *)
(* its snapshot that matches an item g of the global state, the stage      *)
(* stamps g.synced_to_servers[S] with a copy of g's status if and only if  *)
(* the two completed flags are equal and, when the items are not           *)
(* completed, their progress differs by less than 60000 ms; otherwise it   *)
(* leaves the entry for S as it was.                                       *)
(***************************************************************************)
\* <<entry>> for the ledger entry of the item for server s, <<>> for none.
LedgerEntry(item, s) ==
    IF s \in DOMAIN item.synced_to_servers THEN <<item.synced_to_servers[s]>> ELSE <<>>

AlreadySynced(s_item, g_item) ==
    /\ s_item.status.completed = g_item.status.completed
    /\ ~g_item.status.completed
          => Abs(s_item.status.time - g_item.status.time) < ProgressThreshold

\* What the stage did to g_item, matched by s_item of the snapshot of s.
MarkedAsStated(s, s_item, g_item, g_after) ==
    IF AlreadySynced(s_item, g_item)
    THEN /\ LedgerEntry(g_after, s) # <<>>
         /\ g_after.synced_to_servers[s].synced_status = g_item.status
         /\ g_after.synced_to_servers[s].synced_at = now
    ELSE LedgerEntry(g_after, s) = LedgerEntry(g_item, s)

ItemsMarkedAsStated(s, s_items, g_items, g_items_after) ==
    \A i \in 1..Len(g_items) : \A j \in 1..Len(s_items) :
        SameItem(s_items[j], g_items[i])
            => MarkedAsStated(s, s_items[j], g_items[i], g_items_after[i])

C26_MarkAlreadySynced ==
    [][(pc = "mark" /\ pc' = "push") =>
          \A s \in DOMAIN server_watched_data :
              \A u \in DOMAIN state \cap DOMAIN server_watched_data[s] :
                  \A l \in DOMAIN state[u] \cap DOMAIN server_watched_data[s][u] :
                      LET s_lib == server_watched_data[s][u][l]
                          g_lib == state[u][l]
                          g_lib_after == state'[u][l]
                      IN  /\ ItemsMarkedAsStated(s, s_lib.movies, g_lib.movies,
                                                 g_lib_after.movies)
                          /\ \A k \in 1..Len(g_lib.series) :
                                \A j \in 1..Len(s_lib.series) :
                                    SameSeries(s_lib.series[j], g_lib.series[k])
                                        => ItemsMarkedAsStated(s, s_lib.series[j].episodes,
                                               g_lib.series[k].episodes,
                                               g_lib_after.series[k].episodes)]_vars

\* The stage has just run: it stamped an item for one fetched server whose
\* snapshot agrees with the global status, and left without an entry for
\* another fetched server an item whose snapshot disagrees on completion.
C26_Witness ==
    /\ pc = "push"
    /\ processed = {}
    /\ \E u \in DOMAIN state : \E l \in DOMAIN state[u] : \E s, t \in ServerIds :
          /\ HasLibrary(s, u, l)
          /\ HasLibrary(t, u, l)
          /\ \E i \in 1..Len(StateItems(state, u, l)) :
                LET g == StateItems(state, u, l)[i]
                    t_items == StateItems(server_watched_data[t], u, l)
                IN  /\ LedgerEntry(g, s) # <<>>
                    /\ g.synced_to_servers[s].synced_at = now
                    /\ LedgerEntry(g, t) = <<>>
                    /\ \E j \in 1..Len(t_items) :
                          /\ SameItem(t_items[j], g)
                          /\ t_items[j].status.completed # g.status.completed

(***************************************************************************)
(* C27. Additions predicate: the additions computed for server S from a    *)
(* library of the global state hold a movie or an episode of the library   *)
(* if and only if S has no ledger entry on it, or the completed flag of    *)
(* the entry differs from the item's, or the item is not completed and its *)
(* progress differs from the entry's by at least 60000 ms; there are no    *)
(* additions for the library when no item qualifies.                       *)
(***************************************************************************)
NeedsSync(g_item, s) ==
    \/ LedgerEntry(g_item, s) = <<>>
    \/ g_item.synced_to_servers[s].synced_status.completed # g_item.status.completed
    \/ /\ ~g_item.status.completed
       /\ Abs(g_item.status.time - g_item.synced_to_servers[s].synced_status.time)
             >= ProgressThreshold

\* The additions for library l of user u in an update payload: <<diff_lib>>
\* or <<>>.
DiffLibrary(update_payload, u, l) ==
    IF u \in DOMAIN update_payload /\ l \in DOMAIN update_payload[u]
    THEN <<update_payload[u][l]>> ELSE <<>>

SeqMembers(seq) == {seq[i] : i \in 1..Len(seq)}

DiffAsStated(g_lib, diff, s) ==
    /\ diff = <<>> <=>
          \A i \in 1..Len(ItemsOf(g_lib)) : ~NeedsSync(ItemsOf(g_lib)[i], s)
    /\ diff # <<>> =>
          /\ \A i \in 1..Len(g_lib.movies) :
                g_lib.movies[i] \in SeqMembers(diff[1].movies)
                   <=> NeedsSync(g_lib.movies[i], s)
          /\ \A k \in 1..Len(g_lib.series) : \A j \in 1..Len(g_lib.series[k].episodes) :
                LET g_ep == g_lib.series[k].episodes[j]
                IN  (\E d \in 1..Len(diff[1].series) :
                        /\ diff[1].series[d].identifiers = g_lib.series[k].identifiers
                        /\ g_ep \in SeqMembers(diff[1].series[d].episodes))
                       <=> NeedsSync(g_ep, s)
          /\ SeqMembers(ItemsOf(diff[1])) \subseteq SeqMembers(ItemsOf(g_lib))

C27_AdditionsPredicate ==
    [][\A s \in ServerIds :
          (s \in processed' /\ s \notin processed) =>
              \A u \in DOMAIN state : \A l \in DOMAIN state[u] :
                  HasLibrary(s, u, l) =>
                      DiffAsStated(state[u][l], DiffLibrary(payloads'[s].update, u, l), s)]_vars

\* The additions of a server hold an item on which the server has a ledger
\* entry of the same completion, and there are no additions for another
\* library whose items the global state holds.
C27_Witness ==
    /\ pc = "push"
    /\ \E s \in processed : \E u \in DOMAIN payloads[s].update :
          \E l \in DOMAIN payloads[s].update[u] :
              LET added == SeqMembers(ItemsOf(payloads[s].update[u][l]))
              IN  /\ \E g \in added :
                        /\ LedgerEntry(g, s) # <<>>
                        /\ g.synced_to_servers[s].synced_status.completed
                              = g.status.completed
                  /\ \E l2 \in DOMAIN state[u] :
                        /\ StateItems(state, u, l2) # <<>>
                        /\ DiffLibrary(payloads[s].update, u, l2) = <<>>

(***************************************************************************)
(* C28. Removals predicate: for each fetched server and each library of a  *)
(* user that both the global state and the server's snapshot have, the     *)
(* removals computed for the server hold a movie the server reports if and *)
(* only if no global movie matches it, a series the server reports whole   *)
(* if and only if no global series matches it, and of a reported series    *)
(* that a global series matches exactly the episodes matching no episode   *)
(* of that global series.                                                  *)
(***************************************************************************)
\* The episodes of s_ser with no match among the episodes of the first
\* global series matching it.
UnmatchedEpisodes(g_lib, s_ser) ==
    LET k == FirstIndex(g_lib.series, LAMBDA g : SameSeries(g, s_ser))
    IN  SelectSeq(s_ser.episodes,
            LAMBDA s_ep : ~AnyInSeq(g_lib.series[k].episodes,
                                    LAMBDA g_ep : SameItem(g_ep, s_ep)))

\* unmark is <<unmark_lib>> or <<>>.
UnmarkAsStated(g_lib, s_lib, unmark) ==
    LET movies == IF unmark = <<>> THEN {} ELSE SeqMembers(unmark[1].movies)
        series == IF unmark = <<>> THEN {} ELSE SeqMembers(unmark[1].series)
        Matched(s_ser) == AnyInSeq(g_lib.series, LAMBDA g : SameSeries(g, s_ser))
    IN  /\ movies \subseteq SeqMembers(s_lib.movies)
        /\ \A s_mov \in SeqMembers(s_lib.movies) :
              s_mov \in movies
                 <=> ~AnyInSeq(g_lib.movies, LAMBDA g_mov : SameItem(g_mov, s_mov))
        /\ \A s_ser \in SeqMembers(s_lib.series) :
              IF ~Matched(s_ser)
              THEN s_ser \in series
              ELSE LET unmatched == UnmatchedEpisodes(g_lib, s_ser)
                   IN  \A ser \in series :
                          ser.identifiers = s_ser.identifiers
                             => /\ ser.episodes = unmatched
                                /\ unmatched # <<>>
        /\ \A s_ser \in SeqMembers(s_lib.series) :
              (Matched(s_ser) /\ UnmatchedEpisodes(g_lib, s_ser) # <<>>)
                 => \E ser \in series : ser.identifiers = s_ser.identifiers
        /\ \A ser \in series :
              \E s_ser \in SeqMembers(s_lib.series) : ser.identifiers = s_ser.identifiers

C28_RemovalsPredicate ==
    [][\A s \in ServerIds :
          (s \in processed' /\ s \notin processed) =>
              \A u \in DOMAIN state : \A l \in DOMAIN state[u] :
                  HasLibrary(s, u, l) =>
                      UnmarkAsStated(state[u][l], server_watched_data[s][u][l],
                                     DiffLibrary(payloads'[s].remove, u, l))]_vars

\* The removals of a server hold an episode of a series the global state
\* still has, and not another episode the server reports for that series.
C28_Witness ==
    /\ pc = "push"
    /\ \E s \in processed : \E u \in DOMAIN payloads[s].remove :
          \E l \in DOMAIN payloads[s].remove[u] :
              \E ser \in SeqMembers(payloads[s].remove[u][l].series) :
                  /\ ser.episodes # <<>>
                  /\ AnyInSeq(state[u][l].series, LAMBDA g : SameSeries(g, ser))
                  /\ \E s_ser \in SeqMembers(server_watched_data[s][u][l].series) :
                        /\ s_ser.identifiers = ser.identifiers
                        /\ Len(s_ser.episodes) > Len(ser.episodes)

\* The removals of a server hold a movie, or a whole series, that the global
\* state no longer has.
C28_WholeWitness ==
    /\ pc = "push"
    /\ \E s \in processed : \E u \in DOMAIN payloads[s].remove :
          \E l \in DOMAIN payloads[s].remove[u] :
              /\ payloads[s].remove[u][l].series # <<>>
              /\ state[u][l].series = <<>>
    /\ \E s \in processed : \E u \in DOMAIN payloads[s].remove :
          \E l \in DOMAIN payloads[s].remove[u] :
              payloads[s].remove[u][l].movies # <<>>

(***************************************************************************)
(* C29. Ledger update after push: in the push stage a ledger entry for     *)
(* server S is written only by the push of S, once the driver call that    *)
(* carries both the additions and the removals for S has returned without  *)
(* error, and only on a global item matching an item of the additions; a   *)
(* push of S whose call raises writes no ledger entry for S.               *)
(***************************************************************************)
\* The ledger entry for s of item number i of the library changes in the step.
LedgerWritten(s, u, l, i) ==
    LedgerEntry(StateItems(state', u, l)[i], s) # LedgerEntry(StateItems(state, u, l)[i], s)

C29_LedgerAfterPush ==
    [][(pc = "push" /\ pc' = "push") =>
          \A s \in ServerIds :
              /\ \A u \in DOMAIN state : \A l \in DOMAIN state[u] :
                    \A i \in 1..Len(StateItems(state, u, l)) :
                        LedgerWritten(s, u, l, i) =>
                            /\ s \in processed' /\ s \notin processed
                            /\ s \notin push_failed'
                            /\ world'[s] = update_watched(world[s], s, payloads'[s].update,
                                               payloads'[s].remove, dryrun, now)
                            /\ DiffLibrary(payloads'[s].update, u, l) # <<>>
                            /\ \E x \in SeqMembers(ItemsOf(payloads'[s].update[u][l])) :
                                  SameItem(x, StateItems(state, u, l)[i])
                            /\ StateItems(state', u, l)[i].synced_to_servers[s]
                                  = ServerSyncInfo(now, StateItems(state, u, l)[i].status)
              /\ (s \in push_failed' /\ s \notin push_failed) =>
                    \A u \in DOMAIN state : \A l \in DOMAIN state[u] :
                        \A i \in 1..Len(StateItems(state, u, l)) :
                            ~LedgerWritten(s, u, l, i)]_vars

\* The push of one server raised with additions to send and left their
\* items without an entry for it; the push of the other server returned and
\* stamped an item of its additions.
C29_Witness ==
    /\ pc = "push"
    /\ \E s \in push_failed : \E u \in DOMAIN payloads[s].update :
          \E l \in DOMAIN payloads[s].update[u] :
              \E x \in SeqMembers(ItemsOf(payloads[s].update[u][l])) :
                  \E g \in SeqMembers(StateItems(state, u, l)) :
                      SameItem(x, g) /\ LedgerEntry(g, s) = <<>>
    /\ \E t \in processed \ push_failed : \E u \in DOMAIN payloads[t].update :
          \E l \in DOMAIN payloads[t].update[u] :
              \E x \in SeqMembers(ItemsOf(payloads[t].update[u][l])) :
                  \E g \in SeqMembers(StateItems(state, u, l)) :
                      /\ SameItem(x, g)
                      /\ LedgerEntry(g, t) # <<>>
                      /\ g.synced_to_servers[t].synced_at = now

(***************************************************************************)
(* C30. Push failure isolation: once the push of one server has raised,    *)
(* the cycle goes on to its end: the push of every other server has run    *)
(* and, where it returned, stamped the items of its additions, and the     *)
(* global state has been saved.                                            *)
(***************************************************************************)
\* The push of t returned: every item of its additions has a global match
\* stamped for t with the item's status.
PushCompleted(t) ==
    /\ t \in processed
    /\ \A u \in DOMAIN payloads[t].update : \A l \in DOMAIN payloads[t].update[u] :
          \A x \in SeqMembers(ItemsOf(payloads[t].update[u][l])) :
              \E g \in SeqMembers(StateItems(state, u, l)) :
                  /\ SameItem(x, g)
                  /\ LedgerEntry(g, t) = <<ServerSyncInfo(now, g.status)>>

C30_PushFailureIsolation ==
    (push_failed # {})
        ~> (/\ pc = "idle"
            /\ push_failed # {}
            /\ processed = ServerIds
            /\ saved = state
            /\ \A t \in ServerIds \ push_failed : PushCompleted(t))

\* A cycle is over in which the push of one server raised and the push of
\* another server had additions to send.
C30_Witness ==
    /\ pc = "idle"
    /\ push_failed # {}
    /\ saved = state
    /\ \E t \in processed \ push_failed : payloads[t].update # EmptyDict

(***************************************************************************)
(* C31. Ledger state machine: a merge that changes the status of a global  *)
(* item keeps the ledger entries the item has (an entry that was in sync   *)
(* for S stays, now mismatching the status); an entry is discarded only    *)
(* when the item itself is pruned.  As stated for the merge: every ledger  *)
(* entry an item has before the merge stage, the item has after it.        *)
(***************************************************************************)
\* The items of the list keep their ledger entries over the step.
EntriesKept(g_items, g_items_after) ==
    \A i \in 1..Len(g_items) : \A s \in ServerIds :
        LedgerEntry(g_items[i], s) # <<>>
            => LedgerEntry(g_items_after[i], s) = LedgerEntry(g_items[i], s)

C31_MergeKeepsLedger ==
    [][(pc = "merge" /\ pc' = "mark") =>
          \A u \in DOMAIN state : \A l \in DOMAIN state[u] :
              /\ EntriesKept(state[u][l].movies, state'[u][l].movies)
              /\ \A k \in 1..Len(state[u][l].series) :
                    EntriesKept(state[u][l].series[k].episodes,
                                state'[u][l].series[k].episodes)]_vars

\* What the code keeps: outside the merge and the prune no ledger entry of
\* an item of the global state is discarded or changed to another status
\* than the item's.
C31_EntriesOutsideMerge ==
    [][(pc \in {"mark", "push"} /\ pc' = "push") =>
          \A u \in DOMAIN state : \A l \in DOMAIN state[u] :
              \A i \in 1..Len(StateItems(state, u, l)) : \A s \in ServerIds :
                  LET g == StateItems(state, u, l)[i]
                      g_after == StateItems(state', u, l)[i]
                  IN  LedgerEntry(g, s) # <<>> =>
                         /\ LedgerEntry(g_after, s) # <<>>
                         /\ \/ LedgerEntry(g_after, s) = LedgerEntry(g, s)
                            \/ g_after.synced_to_servers[s].synced_status = g.status]_vars


(***************************************************************************)
(* C32  Playlist deletion detection: for every item of the global playlist *)
(* stamped in its ledger for a server S that was gathered, if the item is  *)
(* absent from S's snapshot for that user (also when S no longer reports   *)
(* the playlist at all), the item is deleted from the global playlist and  *)
(* registered in the trashed registry of the cycle under (user, title).    *)
(***************************************************************************)
SnapshotPlaylist(s, u, t) ==
    IF u \in DOMAIN server_data[s] /\ t \in DOMAIN server_data[s][u]
    THEN server_data[s][u][t] ELSE <<>>

StampedAndAbsent(g_item, s, u, t) ==
    /\ s \in DOMAIN g_item.synced_to_servers
    /\ ~AnyInSeq(SnapshotPlaylist(s, u, t),
                 LAMBDA s_item : check_same_identifiers(g_item, s_item))

DeletedAndTrashed(g_item, u, t) ==
    /\ ~AnyInSeq(new_state[u][t], LAMBDA n_item : n_item.title = g_item.title)
    /\ <<u, t>> \in DOMAIN trashed_registry
    /\ AnyInSeq(trashed_registry[<<u, t>>], LAMBDA t_item : t_item = g_item)

C32_DeletionDetection ==
    pl_pc = "execute" =>
        \A u \in DOMAIN playlist_state : \A t \in DOMAIN playlist_state[u] :
            \A s \in DOMAIN server_data :
                \A i \in 1..Len(playlist_state[u][t]) :
                    StampedAndAbsent(playlist_state[u][t][i], s, u, t)
                        => DeletedAndTrashed(playlist_state[u][t][i], u, t)

\* The part of C32 the code delivers: the same for a server whose snapshot
\* reports the playlist for the user.
C32_DetectionWhereReported ==
    pl_pc = "execute" =>
        \A u \in DOMAIN playlist_state : \A t \in DOMAIN playlist_state[u] :
            \A s \in DOMAIN server_data :
                \A i \in 1..Len(playlist_state[u][t]) :
                    (/\ u \in DOMAIN server_data[s]
                     /\ t \in DOMAIN server_data[s][u]
                     /\ StampedAndAbsent(playlist_state[u][t][i], s, u, t))
                        => DeletedAndTrashed(playlist_state[u][t][i], u, t)

\* A stamped item of a playlist the server reports is absent from the
\* snapshot and was deleted and registered.
C32_Witness ==
    /\ pl_pc = "execute"
    /\ \E u \in DOMAIN playlist_state : \E t \in DOMAIN playlist_state[u] :
         \E s \in DOMAIN server_data : \E i \in 1..Len(playlist_state[u][t]) :
            /\ u \in DOMAIN server_data[s]
            /\ t \in DOMAIN server_data[s][u]
            /\ StampedAndAbsent(playlist_state[u][t][i], s, u, t)
            /\ DeletedAndTrashed(playlist_state[u][t][i], u, t)


(***************************************************************************)
(* C33  Trashed-registry honor: deletion detection has run for every       *)
(* server before any playlist merge, and an incoming playlist item that    *)
(* matches an entry of trashed_registry[(user, title)] is not added to     *)
(* that global playlist in the same cycle, whichever server reports it.    *)
(***************************************************************************)
TrashedFor(u, t) ==
    IF <<u, t>> \in DOMAIN trashed_registry THEN trashed_registry[<<u, t>>] ELSE <<>>

MatchesTrashed(s_item, u, t) ==
    AnyInSeq(TrashedFor(u, t), LAMBDA t_item : check_same_identifiers(s_item, t_item))

C33_TrashedHonored ==
    pl_pc = "execute" =>
        \A s \in DOMAIN server_data : \A u \in DOMAIN server_data[s] :
            \A t \in DOMAIN server_data[s][u] :
                \A j \in 1..Len(server_data[s][u][t]) :
                    MatchesTrashed(server_data[s][u][t][j], u, t)
                        => ~AnyInSeq(new_state[u][t],
                               LAMBDA n_item :
                                   check_same_identifiers(server_data[s][u][t][j], n_item))

\* An item deleted on server d is still reported by server s and stays out
\* of the global playlist.
TrashedYetReported(d, s) ==
    /\ pl_pc = "execute"
    /\ \E u \in DOMAIN server_data[s] : \E t \in DOMAIN server_data[s][u] :
         \E j \in 1..Len(server_data[s][u][t]) :
            /\ AnyInSeq(TrashedFor(u, t),
                   LAMBDA t_item :
                       /\ check_same_identifiers(server_data[s][u][t][j], t_item)
                       /\ StampedAndAbsent(t_item, d, u, t))
            /\ u \in DOMAIN server_data[d] /\ t \in DOMAIN server_data[d][u]

C33_Witness == TrashedYetReported("B", "A")

\* The same with the servers met in the other order.
C33_OtherOrderWitness == TrashedYetReported("A", "B")


(***************************************************************************)
(* C34  Playlist removals: a remove_item action is planned for server S    *)
(* only for an item of S's snapshot that matches an entry of the trashed   *)
(* registry of the cycle for that user and playlist; an item that S        *)
(* reports, that is absent from the previous global playlist and that is   *)
(* not trashed, is added to the global playlist and never removed from S.  *)
(***************************************************************************)
RemovalsFor(s, u, t) ==
    IF s \in DOMAIN actions /\ u \in DOMAIN actions[s]
    THEN SelectSeq(actions[s][u],
             LAMBDA a : a.action = "remove_item" /\ a.playlist_title = t)
    ELSE <<>>

PreviousPlaylist(u, t) ==
    IF u \in DOMAIN playlist_state /\ t \in DOMAIN playlist_state[u]
    THEN playlist_state[u][t] ELSE <<>>

NewToGlobal(s_item, u, t) ==
    /\ ~AnyInSeq(PreviousPlaylist(u, t),
                 LAMBDA g_item : check_same_identifiers(s_item, g_item))
    /\ ~MatchesTrashed(s_item, u, t)

C34_RemovalsOnlyTrashed ==
    pl_pc = "execute" =>
        \A s \in DOMAIN server_data : \A u \in DOMAIN server_data[s] :
            \A t \in Titles :
                /\ \A k \in 1..Len(RemovalsFor(s, u, t)) :
                      LET r_item == RemovalsFor(s, u, t)[k].item[1]
                      IN  /\ AnyInSeq(SnapshotPlaylist(s, u, t),
                                      LAMBDA s_item : s_item = r_item)
                          /\ MatchesTrashed(r_item, u, t)
                /\ \A j \in 1..Len(SnapshotPlaylist(s, u, t)) :
                      LET s_item == SnapshotPlaylist(s, u, t)[j]
                      IN  NewToGlobal(s_item, u, t)
                            => /\ AnyInSeq(new_state[u][t],
                                      LAMBDA n_item :
                                          check_same_identifiers(s_item, n_item))
                               /\ ~AnyInSeq(RemovalsFor(s, u, t),
                                      LAMBDA a : a.item[1] = s_item)

\* A remove_item is planned for a trashed item a server still reports.
C34_Witness ==
    /\ pl_pc = "execute"
    /\ \E s \in DOMAIN server_data : \E u \in DOMAIN server_data[s] : \E t \in Titles :
          /\ Len(RemovalsFor(s, u, t)) > 0
          /\ MatchesTrashed(RemovalsFor(s, u, t)[1].item[1], u, t)

\* A server reports an item that is new to a global playlist that already
\* had items, and the item was added.
C34_AddedWitness ==
    /\ pl_pc = "execute"
    /\ \E s \in DOMAIN server_data : \E u \in DOMAIN server_data[s] : \E t \in Titles :
         \E j \in 1..Len(SnapshotPlaylist(s, u, t)) :
            /\ PreviousPlaylist(u, t) # <<>>
            /\ NewToGlobal(SnapshotPlaylist(s, u, t)[j], u, t)
            /\ AnyInSeq(new_state[u][t],
                   LAMBDA n_item :
                       check_same_identifiers(SnapshotPlaylist(s, u, t)[j], n_item))


(***************************************************************************)
(* One cycle over servers with two users, each with M1 watched or not, and *)
(* a state file that has, for either user or both, a movie library with M1 *)
(* stamped for every server or with no movie.                              *)
(***************************************************************************)
ScopeUsers == {"u1", "u2"}

ScopeWorlds ==
    [ServerIds ->
        {[u \in ScopeUsers |->
            [l \in Libraries |->
                [m \in MediaOf(l) |-> IF m = "M1" THEN video[u] ELSE Unwatched]]] :
         video \in [ScopeUsers -> {Unwatched, WatchedVideo}]}]

ScopeStates ==
    {[u \in us |-> [l \in Libraries |->
                      LibraryData(l, IF LibraryType(l) = "movie" THEN movies[u] ELSE <<>>,
                                  <<>>)]] :
        us \in SUBSET ScopeUsers,
        movies \in [ScopeUsers -> {<<>>, <<SavedItem("M1")>>}]}

InitScope ==
    /\ world \in ScopeWorlds
    /\ now = Tick
    /\ saved \in ScopeStates
    /\ state = EmptyDict
    /\ pc = "idle"
    /\ server_watched_data = EmptyDict
    /\ order = <<>>
    /\ tombstones = {}
    /\ dryrun = FALSE
    /\ processed = {}
    /\ loaded = EmptyDict
    /\ prune_log = {}
    /\ payloads = EmptyDict
    /\ fetch_failed = {}
    /\ push_failed = {}
    /\ aborted = <<>>
    /\ effective = TRUE
    /\ last = NoCycle
    /\ cycles = MaxCycles - 1
    /\ user_actions = 0
    /\ faults = 0
    /\ MergeAtRest
    /\ PlaylistAtRest
    /\ RestAtRest

SpecScope == InitScope /\ [][NextDiff]_vars

(***************************************************************************)
(* C35  Tombstone scope: a tombstone created while pruning user U's        *)
(* library affects only that library; it never causes an item reported for *)
(* another user (or another library) to be skipped in the merge, and so    *)
(* never causes that other user's item to be in a removals payload.        *)
(***************************************************************************)
\* A tombstone made while pruning library l of user u matches the item.
OwnTombstone(u, l, item) ==
    \E t \in prune_log :
        /\ t.user = u /\ t.library = l /\ t.kind = "MediaItem"
        /\ check_same_identifiers(item.identifiers, t.identifiers)

\* The movies a snapshot reports for library l of user u.
ReportedMovies(s, u, l) ==
    IF HasLibrary(s, u, l) THEN server_watched_data[s][u][l].movies ELSE <<>>

C35_NotSkipped ==
    pc \in {"mark", "push"} =>
        \A s \in DOMAIN server_watched_data : \A u \in ScopeUsers : \A l \in Libraries :
            \A j \in 1..Len(ReportedMovies(s, u, l)) :
                ~OwnTombstone(u, l, ReportedMovies(s, u, l)[j])
                    => /\ u \in DOMAIN state /\ l \in DOMAIN state[u]
                       /\ AnyInSeq(state[u][l].movies,
                              LAMBDA g : SameItem(g, ReportedMovies(s, u, l)[j]))

C35_NotRemoved ==
    \A s \in DOMAIN payloads : \A u \in DOMAIN payloads[s].remove :
        \A l \in DOMAIN payloads[s].remove[u] :
            \A j \in 1..Len(payloads[s].remove[u][l].movies) :
                OwnTombstone(u, l, payloads[s].remove[u][l].movies[j])


(***************************************************************************)
(* C36  Merge order independence: for any set of server snapshots, the     *)
(* status of every global item after the merge stage is the same whatever  *)
(* order the snapshots are folded in.                                      *)
(***************************************************************************)
ReverseOrder(seq) == [i \in 1..Len(seq) |-> seq[Len(seq) + 1 - i]]

\* The status of every item of a watched state, by user, library and title.
ItemStatuses(g_state) ==
    UNION {UNION {{<<u, l, ItemsOf(g_state[u][l])[i].identifiers.title,
                     ItemsOf(g_state[u][l])[i].status>> :
                      i \in 1..Len(ItemsOf(g_state[u][l]))} :
                  l \in DOMAIN g_state[u]} : u \in DOMAIN g_state}

C36_MergeOrderIndependence ==
    pc = "merge" =>
        ItemStatuses(Merge(state, server_watched_data, order, 1, tombstones))
            = ItemStatuses(Merge(state, server_watched_data, ReverseOrder(order), 1,
                                 tombstones))


(***************************************************************************)
(* C37  No-drift invariant: from an empty state, with snapshot items       *)
(* carrying an empty ledger, at every point of every cycle each ledger     *)
(* entry of each global watched item records a synced_status equal to the  *)
(* item's current status; hence an item is in a server's additions payload *)
(* exactly when that server has no ledger entry on it.                     *)
(***************************************************************************)
NoDrift(item) ==
    \A s \in DOMAIN item.synced_to_servers :
        item.synced_to_servers[s].synced_status = item.status

SameButEntryOf(s, items, items_after) ==
    /\ Len(items_after) = Len(items)
    /\ \A i \in 1..Len(items) :
          /\ items_after[i].identifiers = items[i].identifiers
          /\ items_after[i].status = items[i].status
          /\ \A t \in ServerIds \ {s} :
                LedgerEntry(items_after[i], t) = LedgerEntry(items[i], t)

OnlyLedgerOf(s, g_state, g_state_after) ==
    /\ DOMAIN g_state_after = DOMAIN g_state
    /\ \A u \in DOMAIN g_state :
          /\ DOMAIN g_state_after[u] = DOMAIN g_state[u]
          /\ \A l \in DOMAIN g_state[u] :
                /\ SameButEntryOf(s, g_state[u][l].movies, g_state_after[u][l].movies)
                /\ Len(g_state_after[u][l].series) = Len(g_state[u][l].series)
                /\ \A k \in 1..Len(g_state[u][l].series) :
                      /\ g_state_after[u][l].series[k].identifiers
                            = g_state[u][l].series[k].identifiers
                      /\ SameButEntryOf(s, g_state[u][l].series[k].episodes,
                                        g_state_after[u][l].series[k].episodes)

\* The payloads of a server computed over a state hold the items, with the
\* statuses, of those computed over the state the push stage started with
\* (the state the mark stage saved).
PayloadAsAtStageStart(s, update_payload, remove_payload) ==
    /\ ItemStatuses(update_payload)
          = ItemStatuses(UpdatePayload(saved, server_watched_data, s))
    /\ ItemStatuses(remove_payload)
          = ItemStatuses(RemovePayload(saved, server_watched_data, s))

MaxIncoming == 3

FoldStatuses ==
    {WatchedStatus(TRUE, 0, <<1000>>), WatchedStatus(TRUE, 0, <<2000>>),
     WatchedStatus(FALSE, 200000, <<1000>>)}

\* Incoming items are built by get_mediaitem: their ledger is empty.
FoldItems == {MediaItem(ids, st) : ids \in MergeIdentifiers, st \in FoldStatuses}

InitFold ==
    /\ WatchedAtRest
    /\ dryrun = FALSE
    /\ target_list = <<>>
    /\ sources \in [1..MaxIncoming -> FoldItems]
    /\ merge_log = <<>>
    /\ PlaylistAtRest
    /\ RestAtRest

SpecFold == InitFold /\ [][NextMerge]_vars

(***************************************************************************)
(* C39  No duplicate identities: after the merge, no two items of the same *)
(* global movie list (or of the same series' episode list) match each      *)
(* other under check_same_identifiers, for any sequence of incoming items, *)
(* non-transitive triples included.                                        *)
(***************************************************************************)
C39_NoDuplicateIdentities ==
    \A i \in 1..Len(target_list) : \A j \in 1..Len(target_list) :
        i # j => ~SameItem(target_list[i], target_list[j])

\* What the merge does keep: an incoming item is appended only when it
\* matches no item of the list.
C39_AppendedOnlyUnmatched ==
    [][Len(target_list') > Len(target_list) =>
          /\ target_list' = Append(target_list, Head(sources))
          /\ \A i \in 1..Len(target_list) :
                ~SameItem(target_list[i], Head(sources))]_vars


(***************************************************************************)
(* Cycles in which no user acts: the servers start with any of the media   *)
(* in their libraries, each watched or not, there is no state file, and    *)
(* DRYRUN is set or not.  A server changes only by what is pushed to it.   *)
(***************************************************************************)
WatchWorlds ==
    [ServerIds ->
        {[u \in Users |->
            [l \in Libraries |->
                [m \in held \cap MediaOf(l) |->
                    IF m \in seen THEN WatchedVideo ELSE Unwatched]]] :
         held \in SUBSET (Movies \cup Episodes), seen \in SUBSET (Movies \cup Episodes)}]

InitWatch ==
    /\ world \in WatchWorlds
    /\ now = Tick
    /\ saved = EmptyDict
    /\ state = EmptyDict
    /\ pc = "idle"
    /\ server_watched_data = EmptyDict
    /\ order = <<>>
    /\ tombstones = {}
    /\ dryrun \in BOOLEAN
    /\ processed = {}
    /\ loaded = EmptyDict
    /\ prune_log = {}
    /\ payloads = EmptyDict
    /\ fetch_failed = {}
    /\ push_failed = {}
    /\ aborted = <<>>
    /\ effective = TRUE
    /\ last = NoCycle
    /\ cycles = 0
    /\ user_actions = 0
    /\ faults = 0
    /\ MergeAtRest
    /\ PlaylistAtRest
    /\ RestAtRest

SpecWatch == InitWatch /\ [][NextDiff]_vars

(***************************************************************************)
(* C40  No spurious unmark: if an item is watched on server A and no user  *)
(* ever unmarks or removes it on any server, then over any number of       *)
(* cycles the item is never in A's removals payload, even when the push of *)
(* the item to another server B that has the user and library has no       *)
(* effect (the item is not in B's library, or DRYRUN is set).              *)
(***************************************************************************)
C40_NoSpuriousUnmark ==
    \A s \in DOMAIN payloads : payloads[s].remove = EmptyDict

\* The same for a cycle that follows a cycle in which every fetch and push
\* succeeded and every push took effect on its server.
C40_AfterEffectivePushes ==
    (pc = "push" /\ last.clean) =>
        \A s \in DOMAIN payloads : payloads[s].remove = EmptyDict

====
